---- MODULE Spec2Model ----
(***************************************************************************)
(* A model of cfix, a cuckoo hash table for 32-bit keys (cfix.c, cfix.h),  *)
(* with its public operations, the placement and resize engines and the    *)
(* iterator.                                                               *)
(*                                                                         *)
(* A uint32_t is the pair <<hi, lo>> of its two 16-bit halves, because the *)
(* reserved key 0xffffffff and the hash constants do not fit the integers  *)
(* of the model checker.  A double of the configuration is a number of     *)
(* hundredths.                                                             *)
(***************************************************************************)
EXTENDS Integers, Sequences, FiniteSets, TLC


(***************************************************************************)
(* The value of e is computed once and body is applied to it: the model's  *)
(* form of a C local variable that is assigned once and read several times.*)
(***************************************************************************)
Bind(e, body(_)) == CHOOSE r \in {body(v) : v \in {e}} : TRUE

(***************************************************************************)
(* uint32_t arithmetic on 16-bit halves                                    *)
(***************************************************************************)
Half == 256 * 256

U32(n) == <<n \div Half, n % Half>>

Less32(a, b) == a[1] < b[1] \/ (a[1] = b[1] /\ a[2] < b[2])

Add32(a, b) ==
    <<(a[1] + b[1] + ((a[2] + b[2]) \div Half)) % Half, (a[2] + b[2]) % Half>>

Not32(a) == <<(Half - 1) - a[1], (Half - 1) - a[2]>>

Sub32(a, b) == Add32(a, Add32(Not32(b), <<0, 1>>))

Pow2(n) == CASE n = 0 -> 1 [] n = 1 -> 2 [] n = 2 -> 4 [] n = 3 -> 8
             [] n = 4 -> 16 [] n = 5 -> 32 [] n = 6 -> 64 [] n = 7 -> 128
             [] n = 8 -> 256 [] n = 9 -> 512 [] n = 10 -> 1024
             [] n = 11 -> 2048 [] n = 12 -> 4096 [] n = 13 -> 8192
             [] n = 14 -> 16384 [] n = 15 -> 32768 [] n = 16 -> 65536

\* a << n, for 0 < n < 16
Shl32(a, n) ==
    <<((a[1] * Pow2(n)) % Half) + (a[2] \div Pow2(16 - n)),
      (a[2] * Pow2(n)) % Half>>

\* a >> n, for 0 < n < 32
Shr32(a, n) ==
    IF n >= 16
    THEN <<0, a[1] \div Pow2(n - 16)>>
    ELSE <<a[1] \div Pow2(n),
           (a[2] \div Pow2(n)) + ((a[1] % Pow2(n)) * Pow2(16 - n))>>

RECURSIVE Xor16(_, _, _)
Xor16(x, y, bits) ==
    IF bits = 0 THEN 0
    ELSE ((x + y) % 2) + 2 * Xor16(x \div 2, y \div 2, bits - 1)

Xor32(a, b) == <<Xor16(a[1], b[1], 16), Xor16(a[2], b[2], 16)>>

\* a % n for a bin count n
Mod32(a, n) == (((a[1] % n) * (Half % n)) + a[2]) % n

(***************************************************************************)
(* The two hash functions                                                  *)
(***************************************************************************)
cfix_full_avalanche(key) ==
    Bind(Add32(Add32(key, <<32469, 23830>>), Shl32(key, 12)), LAMBDA a1 :
    Bind(Xor32(Xor32(a1, <<51041, 49724>>), Shr32(a1, 19)), LAMBDA a2 :
    Bind(Add32(Add32(a2, <<5718, 26545>>), Shl32(a2, 5)), LAMBDA a3 :
    Bind(Xor32(Add32(a3, <<54178, 25708>>), Shl32(a3, 9)), LAMBDA a4 :
    Bind(Add32(Add32(a4, <<64880, 18117>>), Shl32(a4, 3)), LAMBDA a5 :
    Xor32(Xor32(a5, <<46426, 20233>>), Shr32(a5, 16)))))))

cfix_half_avalanche(key) ==
    Bind(Not32(key), LAMBDA a0 :
    Bind(Add32(Add32(a0, <<18330, 46109>>), Shl32(a0, 8)), LAMBDA a1 :
    Bind(Xor32(Xor32(a1, <<58538, 4302>>), Shr32(a1, 5)), LAMBDA a2 :
    Bind(Sub32(Add32(a2, <<39234, 61606>>), Shl32(a2, 14)), LAMBDA a3 :
    Bind(Xor32(Xor32(a3, <<23277, 54909>>), Shr32(a3, 3)), LAMBDA a4 :
    Add32(Add32(a4, <<6078, 43410>>), Shl32(a4, 7)))))))

(***************************************************************************)
(* Constants of cfix.h and cfix.c                                          *)
(***************************************************************************)
CFIX_BIN_SIZE == 16

CFIX_DATA_MAXSIZE == 15

CFIX_INF == <<65535, 65535>>

CFIX_NODATA == <<57005, 47806>>

CFIX_ITER_SUCCESS == "CFIX_ITER_SUCCESS"
CFIX_ITER_FAILURE == "CFIX_ITER_FAILURE"
CFIX_ITER_INVALID == "CFIX_ITER_INVALID"

Offsets == 0 .. (CFIX_BIN_SIZE - 1)

(***************************************************************************)
(* The prime table (hash_primes.h is not part of the sources at hand): a   *)
(* monotone increasing sequence of primes, indexed from 0.                 *)
(***************************************************************************)
PrimeTable == <<2, 3, 5, 7, 11, 13, 17, 19, 23, 29, 31, 37, 41, 43, 47>>

hash_primes_index_to_number(i) == PrimeTable[i + 1]

(***************************************************************************)
(* The keys the model works with, and their hash values (computed once).  *)
(***************************************************************************)
Key(n) == U32(n)

\* 16 keys whose primary bin is 0 and whose secondary bin is 1, of 2 bins
LoadSpread == <<Key(1), Key(2), Key(3), Key(5), Key(6), Key(15), Key(16), Key(17),
                Key(19), Key(21), Key(29), Key(30), Key(31), Key(34), Key(43),
                Key(44)>>

\* 16 keys with both bins 0 of 2 bins and both bins 1 of 3 bins
LoadClash == <<Key(7), Key(52), Key(54), Key(55), Key(108), Key(256), Key(343),
               Key(361), Key(378), Key(424), Key(435), Key(436), Key(440),
               Key(538), Key(540), Key(547)>>

\* one more key of the kind of LoadClash, and one with both bins 0 of 2 bins
ClashKey == Key(551)
BigKey == <<65535, 65534>>

\* 15 keys whose primary bin is 1 and whose secondary bin is 0, of 2 bins,
\* a larger key with both bins 1, and one more key of the first kind
LoadSecond == <<Key(9), Key(11), Key(12), Key(23), Key(25), Key(27), Key(36),
                Key(41), Key(53), Key(56), Key(57), Key(61), Key(62), Key(66),
                Key(76), Key(86), Key(77)>>

\* 32 keys that fill 2 bins: 16 keys go to their primary bin 1, then 9 to its
\* secondary bin 0, then 15 larger keys to their primary bin 0
LoadMixed == Tail(LoadSecond) \o <<Key(9)>>
                 \o <<Key(15), Key(16), Key(17), Key(19), Key(21), Key(29), Key(30),
                      Key(31), Key(34), Key(43), Key(44), Key(45), Key(47), Key(49),
                      Key(50)>>

\* 32 keys that fill 2 bins so that key 7 is the only key of bin 0 that lies
\* in its primary bin: every other key has primary bin 1
LoadLone == LoadSecond
                \o <<Key(78), Key(79), Key(80), Key(82), Key(91), Key(92), Key(97),
                     Key(98), Key(103), Key(114), Key(124), Key(125), Key(126),
                     Key(127)>>
                \o <<Key(7)>>

\* 16 keys with both bins 0 of 5 bins that spread over 2, 3 and 7 bins, and
\* one more key of this kind
LoadFive == <<Key(20), Key(26), Key(79), Key(112), Key(126), Key(134), Key(140),
              Key(147), Key(182), Key(199), Key(250), Key(260), Key(263), Key(307),
              Key(322), Key(326)>>
FiveKey == Key(388)

AllKeys == {LoadSpread[i] : i \in 1 .. Len(LoadSpread)}
               \cup {LoadFive[i] : i \in 1 .. Len(LoadFive)} \cup {FiveKey}
               \cup {LoadLone[i] : i \in 1 .. Len(LoadLone)}
               \cup {LoadClash[i] : i \in 1 .. Len(LoadClash)}
               \cup {LoadSecond[i] : i \in 1 .. Len(LoadSecond)}
               \cup {LoadMixed[i] : i \in 1 .. Len(LoadMixed)}
               \cup {ClashKey, BigKey, Key(0), Key(45), CFIX_INF}

full_avalanche_memo == [k \in AllKeys |-> cfix_full_avalanche(k)]

half_avalanche_memo == [k \in AllKeys |-> cfix_half_avalanche(k)]

\* cfix_full_avalanche(key) % h->bins
H1(h, key) == Mod32(full_avalanche_memo[key], h.bins)

\* cfix_half_avalanche(key) % h->bins
H2(h, key) == Mod32(half_avalanche_memo[key], h.bins)


(***************************************************************************)
(* Bins.  h.bin[base][offset] is the entry [key, data] at CFIX_KEY(h, base,*)
(* offset) and CFIX_DATA(h, base, offset); data is the sequence of the     *)
(* h.size - 1 data words of the entry.                                     *)
(***************************************************************************)
CFIX_KEY(h, base, offset) == h.bin[base][offset].key

CFIX_DATA(h, base, offset) == h.bin[base][offset].data

\* a time to live that is the configured depth, whatever the number of bins
ttl_depth(h) == h.depth

CFIX_TTL(h) == IF h.depth < h.bins THEN h.depth ELSE h.bins

NoData(h) == [i \in 1 .. (h.size - 1) |-> CFIX_NODATA]

\* a cfix_data_clear that leaves the data words as they are
data_clear_none(h, base, offset) == h

cfix_data_clear(h, base, offset) ==
    IF h.size = 1 THEN h
    ELSE [h EXCEPT !.bin[base][offset].data = NoData(h)]

cfix_data_empty(h, base, offset) ==
    IF h.size = 1 THEN TRUE
    ELSE \A i \in 1 .. (h.size - 1) : CFIX_DATA(h, base, offset)[i] = CFIX_NODATA

\* a cfix_data_store that copies nothing
data_store_none(h, src_data, dst_base, dst_offset) == h

cfix_data_store(h, src_data, dst_base, dst_offset) ==
    IF h.size = 1 THEN h
    ELSE [h EXCEPT !.bin[dst_base][dst_offset].data = src_data]

\* the entry buffer of cfix_entry_copy: the key and, when there is data, the data
cfix_entry_copy(h, src_base, src_offset) == h.bin[src_base][src_offset]

cfix_entry_paste(h, src_entry, dst_base, dst_offset) ==
    IF h.size = 1
    THEN [h EXCEPT !.bin[dst_base][dst_offset].key = src_entry.key]
    ELSE [h EXCEPT !.bin[dst_base][dst_offset] = src_entry]

cfix_entry_move(h, src_base, src_offset, dst_base, dst_offset) ==
    cfix_entry_paste(h, h.bin[src_base][src_offset], dst_base, dst_offset)

\* a fresh bin array of h.bins bins, every key CFIX_INF and every data cleared
cfix_bin_init(h) ==
    [h EXCEPT !.bin = [b \in 0 .. (h.bins - 1) |->
                         [o \in Offsets |-> [key |-> CFIX_INF, data |-> NoData(h)]]]]

\* the slots of bin base from offset on that the counting loop passes before
\* it meets CFIX_INF or the end of the bin
bin_count_from(h, base, offset) ==
    Cardinality({o \in offset .. (CFIX_BIN_SIZE - 1) :
                    \A p \in offset .. o : CFIX_KEY(h, base, p) # CFIX_INF})

cfix_bin_count(h, base) == bin_count_from(h, base, 0)

\* key > CFIX_KEY(h, base, o), as the 0 or 1 of a C comparison
Gt(h, base, key, o) == IF Less32(CFIX_KEY(h, base, o), key) THEN 1 ELSE 0

\* key >= CFIX_KEY(h, base, o), as the 0 or 1 of the C comparison
Ge(h, base, key, o) == IF Less32(key, CFIX_KEY(h, base, o)) THEN 0 ELSE 1

\* the four comparison ladder; abort: the assertion after a miss fails
cfix_bin_locate(h, base, key) ==
    Bind(8 * Ge(h, base, key, 8), LAMBDA a1 :
    Bind(a1 + 4 * Ge(h, base, key, a1 + 4), LAMBDA a2 :
    Bind(a2 + 2 * Ge(h, base, key, a2 + 2), LAMBDA a3 :
    Bind(a3 + Ge(h, base, key, a3 + 1), LAMBDA a :
    IF CFIX_KEY(h, base, a) = key
    THEN [hit |-> TRUE, offset |-> a, abort |-> FALSE]
    ELSE [hit |-> FALSE, offset |-> a,
          abort |-> \E o \in Offsets : CFIX_KEY(h, base, o) = key]))))

\* found, with the base and offset of the entry; abort as in cfix_bin_locate
cfix_locate(h, key) ==
    Bind(H1(h, key), LAMBDA base_full :
    Bind(cfix_bin_locate(h, base_full, key), LAMBDA p :
    IF p.hit \/ p.abort
    THEN [found |-> p.hit, base |-> base_full, offset |-> p.offset, abort |-> p.abort]
    ELSE
    Bind(H2(h, key), LAMBDA base_half :
    Bind(cfix_bin_locate(h, base_half, key), LAMBDA s :
    [found |-> s.hit, base |-> base_half, offset |-> s.offset, abort |-> s.abort]))))

\* what cfix_entry_paste leaves in a slot that held dst: the entry src, or
\* its key alone when the table has no data words
Pasted(h, src, dst) == IF h.size = 1 THEN [dst EXCEPT !.key = src.key] ELSE src

\* the table after the loop of cfix_roll_left, cfix_roll_right or cfix_adjust
\* has taken entry from slot from to slot to of bin base: each of its turns
\* moves the neighbour into the slot of the entry and pastes the entry into
\* the neighbour's, so the entries between the two slots are one slot nearer
\* to from
entry_shift(h, base, entry, from, to) ==
    [h EXCEPT !.bin[base] =
        [o \in Offsets |->
            IF o = to THEN Pasted(h, entry, @[o])
            ELSE IF to < o /\ o <= from THEN Pasted(h, @[o - 1], @[o])
            ELSE IF from <= o /\ o < to THEN Pasted(h, @[o + 1], @[o])
            ELSE @[o]]]

\* the loop of cfix_roll_left from o on: it goes down to the first slot that
\* is slot 0 or follows a key less than the key of the entry (break)
roll_left_from(h, base, entry, o) ==
    entry_shift(h, base, entry, o,
        CHOOSE p \in 0 .. o :
            /\ p = 0 \/ Less32(CFIX_KEY(h, base, p - 1), entry.key)
            /\ \A q \in (p + 1) .. o : ~Less32(CFIX_KEY(h, base, q - 1), entry.key))

cfix_roll_left(h, base, offset) ==
    roll_left_from(h, base, cfix_entry_copy(h, base, offset), offset)

\* the loop of cfix_roll_right from o on: it goes up to the first slot that
\* is the last slot or precedes a key greater than the key of the entry (break)
roll_right_from(h, base, entry, o) ==
    entry_shift(h, base, entry, o,
        CHOOSE p \in o .. (CFIX_BIN_SIZE - 1) :
            /\ p = CFIX_BIN_SIZE - 1 \/ Less32(entry.key, CFIX_KEY(h, base, p + 1))
            /\ \A q \in o .. (p - 1) : ~Less32(entry.key, CFIX_KEY(h, base, q + 1)))

\* a cfix_roll_right that leaves the cleared slot where it is
roll_right_none(h, base, offset) == h

cfix_roll_right(h, base, offset) ==
    roll_right_from(h, base, cfix_entry_copy(h, base, offset), offset)

\* l and r of cfix_adjust: the entry at offset is in order with its neighbour
adjust_l(h, base, offset) ==
    IF offset = 0 THEN TRUE
    ELSE Less32(CFIX_KEY(h, base, offset - 1), CFIX_KEY(h, base, offset))

adjust_r(h, base, offset) ==
    IF offset = CFIX_BIN_SIZE - 1 THEN TRUE
    ELSE Less32(CFIX_KEY(h, base, offset), CFIX_KEY(h, base, offset + 1))

\* the turns of cfix_adjust that take the entry from offset down to slot to,
\* where the loop ends: by return at slot 0 or after a smaller key, by a
\* failed assertion after an equal key
adjust_left(h, base, offset, to) ==
    [h |-> entry_shift(h, base, cfix_entry_copy(h, base, offset), offset, to),
     offset |-> to,
     abort |-> to # 0 /\ CFIX_KEY(h, base, to - 1) = CFIX_KEY(h, base, offset)]

\* the turns of cfix_adjust that take the entry from offset up to slot to,
\* where the loop ends: by return at the last slot or before a greater key,
\* by a failed assertion before an equal key
adjust_right(h, base, offset, to) ==
    [h |-> entry_shift(h, base, cfix_entry_copy(h, base, offset), offset, to),
     offset |-> to,
     abort |-> to # CFIX_BIN_SIZE - 1
                  /\ CFIX_KEY(h, base, to + 1) = CFIX_KEY(h, base, offset)]

\* returns the table, the final offset, and abort when an assertion fails.
\* The first turn chooses the direction, and every later turn finds the
\* neighbour it has just passed on the other side
cfix_adjust(h, base, offset) ==
    IF \/ offset # 0 /\ CFIX_KEY(h, base, offset - 1) = CFIX_KEY(h, base, offset)
       \/ offset # CFIX_BIN_SIZE - 1
              /\ CFIX_KEY(h, base, offset) = CFIX_KEY(h, base, offset + 1)
    THEN [h |-> h, offset |-> offset, abort |-> TRUE]
    ELSE IF adjust_l(h, base, offset) /\ adjust_r(h, base, offset)
    THEN [h |-> h, offset |-> offset, abort |-> FALSE]
    ELSE IF ~adjust_l(h, base, offset)
    THEN adjust_left(h, base, offset,
             CHOOSE p \in 0 .. (offset - 1) :
                 /\ p = 0 \/ ~Less32(CFIX_KEY(h, base, offset), CFIX_KEY(h, base, p - 1))
                 /\ \A q \in (p + 1) .. (offset - 1) :
                        Less32(CFIX_KEY(h, base, offset), CFIX_KEY(h, base, q - 1)))
    ELSE adjust_right(h, base, offset,
             CHOOSE p \in (offset + 1) .. (CFIX_BIN_SIZE - 1) :
                 /\ p = CFIX_BIN_SIZE - 1
                        \/ ~Less32(CFIX_KEY(h, base, p + 1), CFIX_KEY(h, base, offset))
                 /\ \A q \in (offset + 1) .. (p - 1) :
                        Less32(CFIX_KEY(h, base, q + 1), CFIX_KEY(h, base, offset)))

(***************************************************************************)
(* Placement.  cfix_cuckoo returns ok (the C result), the table, and abort *)
(* when one of its assertions fails.  displace is one of its two candidate *)
(* loops, over bin base from offset on.  deep is the number of nested      *)
(* cfix_cuckoo calls that got past the ttl test, the call itself included. *)
(***************************************************************************)
RECURSIVE cfix_cuckoo(_, _, _, _)
RECURSIVE displace_turns(_, _, _, _, _, _, _)

Failed(h) == [ok |-> FALSE, abort |-> FALSE, h |-> h, deep |-> 0]

Aborted(h) == [ok |-> FALSE, abort |-> TRUE, h |-> h, deep |-> 0]

\* the result r of a loop that follows calls nested deep levels
Deeper(deep, r) == [r EXCEPT !.deep = IF deep > @ THEN deep ELSE @]

\* the result r of the body of a call, seen by its caller
Called(r) == [r EXCEPT !.deep = @ + 1]

\* a placement that takes the bin after the one the hash names
place_tail_other(h, base, key, data) ==
    [ok |-> TRUE, abort |-> FALSE, deep |-> 0,
     h |-> cfix_roll_left(
               cfix_data_store(
                   [h EXCEPT !.bin[(base + 1) % h.bins][CFIX_BIN_SIZE - 1].key = key],
                   data, (base + 1) % h.bins, CFIX_BIN_SIZE - 1),
               (base + 1) % h.bins, CFIX_BIN_SIZE - 1)]

\* the key goes to the free last slot of bin base and is rolled into place
place_tail(h, base, key, data) ==
    IF ~cfix_data_empty(h, base, CFIX_BIN_SIZE - 1) THEN Aborted(h)
    ELSE [ok |-> TRUE, abort |-> FALSE, deep |-> 0,
          h |-> cfix_roll_left(
                    cfix_data_store([h EXCEPT !.bin[base][CFIX_BIN_SIZE - 1].key = key],
                                    data, base, CFIX_BIN_SIZE - 1),
                    base, CFIX_BIN_SIZE - 1)]

\* the end of a candidate loop body after the recursion rec failed, with the
\* candidate cand_entry put back where the key is and adjusted: restored
candidate_restored(h, offset, rec, restored) ==
    IF restored.abort \/ restored.offset # offset THEN Aborted(h)
    ELSE Deeper(rec.deep, Failed(restored.h))

\* a candidate loop body that leaves the bins as the failed recursion left them
candidate_unrestored(h, base, key, offset, cand_entry, swapped, rec) ==
    IF rec.abort THEN Aborted(h)
    ELSE IF rec.ok THEN rec
    ELSE Deeper(rec.deep, Failed(rec.h))

\* a candidate loop body after the recursion rec for the candidate: return
\* true, or restore and move on
candidate_placed(h, base, key, offset, cand_entry, swapped, rec) ==
    IF rec.abort THEN Aborted(h)
    ELSE IF rec.ok THEN rec
    ELSE IF CFIX_KEY(rec.h, base, swapped.offset) # key THEN Aborted(h)
    ELSE candidate_restored(h, offset, rec,
             cfix_adjust(cfix_entry_paste(rec.h, cand_entry, base, swapped.offset),
                         base, swapped.offset))

\* a candidate loop body after the key took the candidate's slot and was
\* adjusted, swapped: the candidate is placed with ttl - 1
candidate_swapped(h, base, key, ttl, offset, cand_entry, swapped) ==
    IF swapped.abort THEN Aborted(h)
    ELSE candidate_placed(h, base, key, offset, cand_entry, swapped,
             cfix_cuckoo(swapped.h, cand_entry.key, cand_entry.data, ttl - 1))

\* the body of a candidate loop for the candidate at offset: the key takes
\* its slot, the candidate is placed with ttl - 1, and is restored on failure
candidate(h, base, key, data, ttl, offset) ==
    candidate_swapped(h, base, key, ttl, offset, cfix_entry_copy(h, base, offset),
        cfix_adjust(cfix_data_store([h EXCEPT !.bin[base][offset].key = key],
                                    data, base, offset),
                    base, offset))

\* a candidate test that takes every occupant of the bin for a candidate
displace_any(h, base, offset) == TRUE

\* the test of the candidate loops: bin base is the primary bin of the key at offset
candidate_primary(h, base, offset) == base = H1(h, CFIX_KEY(h, base, offset))

\* the turn of a candidate loop for the slot at offset, after the turns
\* before it failed and left tried
displace_turn(tried, base, key, data, ttl, offset) ==
    IF ~candidate_primary(tried.h, base, offset) THEN tried
    ELSE Deeper(tried.deep, candidate(tried.h, base, key, data, ttl, offset))

\* the turns lo .. hi - 1 of a candidate loop after the turns before them came
\* to tried: none when one of those returned true or failed an assertion
displace_rest(tried, base, key, data, ttl, lo, hi) ==
    IF tried.abort \/ tried.ok \/ lo = hi THEN tried
    ELSE displace_turns(tried, base, key, data, ttl, lo, hi)

\* the turns lo .. hi - 1 of a candidate loop, in order, the lower half before
\* the upper half
displace_turns(tried, base, key, data, ttl, lo, hi) ==
    IF hi - lo = 1 THEN displace_turn(tried, base, key, data, ttl, lo)
    ELSE displace_rest(displace_turns(tried, base, key, data, ttl, lo, (lo + hi) \div 2),
                       base, key, data, ttl, (lo + hi) \div 2, hi)

\* a candidate loop over bin base from offset on, entered with tried: the turn
\* for offset, then the turns for the slots after it
displace(tried, base, key, data, ttl, offset) ==
    IF offset = CFIX_BIN_SIZE THEN tried
    ELSE displace_rest(displace_turn(tried, base, key, data, ttl, offset),
                       base, key, data, ttl, offset + 1, CFIX_BIN_SIZE)

\* the second candidate loop, over bin base, after the first came to tried
displace_second(tried, base, key, data, ttl) ==
    IF tried.abort \/ tried.ok THEN tried
    ELSE displace(tried, base, key, data, ttl, 0)

\* a placement that tries the bin of the second hash function first
cuckoo_half_first(h, key, data, ttl) ==
    IF ttl = 0 THEN Failed(h)
    ELSE IF CFIX_KEY(h, H2(h, key), CFIX_BIN_SIZE - 1) = CFIX_INF
    THEN Called(place_tail(h, H2(h, key), key, data))
    ELSE IF CFIX_KEY(h, H1(h, key), CFIX_BIN_SIZE - 1) = CFIX_INF
    THEN Called(place_tail(h, H1(h, key), key, data))
    ELSE Called(Failed(h))

\* cfix_cuckoo past the ttl test, with the two bins of the key: the free last
\* slot of one of them, or the candidate loops over the first and the second
cuckoo_bins(h, key, data, ttl, base_full, base_half) ==
    IF CFIX_KEY(h, base_full, CFIX_BIN_SIZE - 1) = CFIX_INF
    THEN place_tail(h, base_full, key, data)
    ELSE IF CFIX_KEY(h, base_half, CFIX_BIN_SIZE - 1) = CFIX_INF
    THEN place_tail(h, base_half, key, data)
    ELSE displace_second(displace(Failed(h), base_full, key, data, ttl, 0),
                         base_half, key, data, ttl)

cfix_cuckoo(h, key, data, ttl) ==
    IF ttl = 0 THEN Failed(h)
    ELSE Called(cuckoo_bins(h, key, data, ttl, H1(h, key), H2(h, key)))

(***************************************************************************)
(* Construction.  A configuration is a record of cfix_config_t's fields;   *)
(* h.infdata is TRUE when the pointer infdata is not NULL, and h._infdata  *)
(* holds the h.size - 1 words of its storage that the table uses.          *)
(***************************************************************************)
RECURSIVE keys_to_prix_from(_, _)
keys_to_prix_from(keys, result) ==
    IF hash_primes_index_to_number(result) * CFIX_BIN_SIZE < keys
    THEN keys_to_prix_from(keys, result + 1)
    ELSE result

cfix_keys_to_prix(keys) == keys_to_prix_from(keys, 0)

\* the default values of cfix.h, doubles in hundredths
CFIX_CONFIG_DEFAULT_START == 112
CFIX_CONFIG_DEFAULT_DATA == 1
CFIX_CONFIG_DEFAULT_DEPTH == 3
CFIX_CONFIG_DEFAULT_LOWER == 0
CFIX_CONFIG_DEFAULT_UPPER == 100
CFIX_CONFIG_DEFAULT_GROWTH == 150
CFIX_CONFIG_DEFAULT_ATTEMPT == 50
CFIX_CONFIG_DEFAULT_RANDOM == 50

\* the members of struct cfix_config in the order of their declaration
cfix_config == <<"start", "data", "depth", "lower", "upper", "growth", "attempt",
                 "random">>

\* a C initializer list: the values go to the members in order, and the
\* members past the end of the list are zero
Initializer(values) ==
    [f \in {cfix_config[i] : i \in 1 .. Len(cfix_config)} |->
        Bind(CHOOSE i \in 1 .. Len(cfix_config) : cfix_config[i] = f, LAMBDA i :
        IF i <= Len(values) THEN values[i] ELSE 0)]

\* the configuration cfix_create takes when it is passed NULL
default_conf ==
    Initializer(<<CFIX_CONFIG_DEFAULT_START,
                  CFIX_CONFIG_DEFAULT_DATA,
                  CFIX_CONFIG_DEFAULT_DEPTH,
                  CFIX_CONFIG_DEFAULT_GROWTH,
                  CFIX_CONFIG_DEFAULT_ATTEMPT,
                  CFIX_CONFIG_DEFAULT_RANDOM>>)

\* the assertions of cfix_create on the configuration
ConfigOk(conf) ==
    /\ 0 <= conf.lower /\ conf.lower < conf.upper /\ conf.upper <= 100
    /\ conf.data <= CFIX_DATA_MAXSIZE

cfix_create(conf) ==
    Bind(cfix_keys_to_prix(conf.start), LAMBDA prix :
    cfix_bin_init([bin |-> << >>,
                   infdata |-> FALSE,
                   _infdata |-> [i \in 1 .. conf.data |-> <<0, 0>>],
                   version |-> 0,
                   prix |-> prix,
                   bins |-> hash_primes_index_to_number(prix),
                   keys |-> 0,
                   size |-> conf.data + 1,
                   depth |-> conf.depth,
                   min |-> CFIX_INF,
                   max |-> <<0, 0>>,
                   lower |-> conf.lower,
                   upper |-> conf.upper,
                   growth |-> conf.growth,
                   attempt |-> conf.attempt,
                   random |-> conf.random]))

\* a count that sets min and max for the first key only
count_key_first(h, k) ==
    [h EXCEPT !.min = IF h.keys = 0 THEN k ELSE h.min,
              !.max = IF h.keys = 0 THEN k ELSE h.max,
              !.keys = h.keys + 1]

\* what follows a successful cfix_cuckoo of key k: min, max and the key count
count_key(h, k) ==
    [h EXCEPT !.min = IF h.keys = 0 \/ Less32(k, h.min) THEN k ELSE h.min,
              !.max = IF h.keys = 0 \/ Less32(h.max, k) THEN k ELSE h.max,
              !.keys = h.keys + 1]

(***************************************************************************)
(* The loop that grow, shrink and rebuild share: every entry of the old    *)
(* bin array, bin by bin up to the first CFIX_INF of each bin, is placed   *)
(* in the new array; ok is FALSE at the first placement that fails (the    *)
(* goto retry).  Slot number base * CFIX_BIN_SIZE + offset is the turn of   *)
(* the loops for the entry at base, offset; the turns of a range are taken *)
(* in order, the lower half before the upper half.                         *)
(***************************************************************************)
RECURSIVE reinsert_turns(_, _, _, _)

\* after the placement of the entry at base, offset: goto retry, or count and go on
reinsert_next(placed, h, old, base, offset) ==
    IF placed.abort \/ ~placed.ok THEN [ok |-> FALSE, abort |-> placed.abort, h |-> h]
    ELSE [ok |-> TRUE, abort |-> FALSE,
          h |-> count_key(placed.h, CFIX_KEY(old, base, offset))]

\* the turn for the entry at base, offset: the inner loop has left the bin
\* (break) when a slot up to offset holds CFIX_INF
reinsert_turn(h, old, base, offset) ==
    IF \E o \in 0 .. offset : CFIX_KEY(old, base, o) = CFIX_INF
    THEN [ok |-> TRUE, abort |-> FALSE, h |-> h]
    ELSE reinsert_next(cfix_cuckoo(h, CFIX_KEY(old, base, offset),
                                   CFIX_DATA(old, base, offset), CFIX_TTL(h)),
                       h, old, base, offset)

\* the turns lo .. hi - 1 after the turns before them came to done: none
\* after the goto retry
reinsert_rest(done, old, lo, hi) ==
    IF done.ok THEN reinsert_turns(done.h, old, lo, hi) ELSE done

\* the turns lo .. hi - 1, in order, the lower half before the upper half
reinsert_turns(h, old, lo, hi) ==
    IF hi - lo = 1
    THEN reinsert_turn(h, old, lo \div CFIX_BIN_SIZE, lo % CFIX_BIN_SIZE)
    ELSE reinsert_rest(reinsert_turns(h, old, lo, (lo + hi) \div 2),
                       old, (lo + hi) \div 2, hi)

reinsert(h, old, base, offset) ==
    IF base = old.bins THEN [ok |-> TRUE, abort |-> FALSE, h |-> h]
    ELSE reinsert_turns(h, old, (base * CFIX_BIN_SIZE) + offset,
                        old.bins * CFIX_BIN_SIZE)

\* a fresh bin array whose key count forgets the entry of CFIX_INF
fresh_uncounted(h, prix) ==
    cfix_bin_init([h EXCEPT !.prix = prix,
                            !.bins = hash_primes_index_to_number(prix),
                            !.keys = 0,
                            !.min = CFIX_INF,
                            !.max = <<0, 0>>])

\* the table with a fresh, empty bin array for prime index prix
fresh(h, prix) ==
    cfix_bin_init([h EXCEPT !.prix = prix,
                            !.bins = hash_primes_index_to_number(prix),
                            !.keys = IF h.infdata THEN 1 ELSE 0,
                            !.min = CFIX_INF,
                            !.max = <<0, 0>>])

\* calls lists the calls of cfix_bin_reuse and cfix_bin_recycle the call
\* made, in their order, each with its number of bins
Returned(h, ret) == [h |-> h, ret |-> ret, abort |-> FALSE, calls |-> << >>]

\* the call does not return: an assertion fails
Ended(h) == [h |-> h, ret |-> FALSE, abort |-> TRUE, calls |-> << >>]

\* the bin array of table t is taken from, or given back to, the bin handle
Reuse(t) == [call |-> "cfix_bin_reuse", n |-> t.bins * t.size]
Recycle(t) == [call |-> "cfix_bin_recycle", n |-> t.bins * t.size]

\* the outcome r of the rest of a loop that first made these calls
After(calls, r) == [r EXCEPT !.calls = calls \o @]

(***************************************************************************)
(* cfix_insert.  rand[n] is what attempt n of the grow loop draws: sample   *)
(* is the value of drand48(), in hundredths, and wild is the value the     *)
(* conversion to uint32_t yields when its operand is -1 or less, where C   *)
(* leaves the result undefined.  The result is the table, the value        *)
(* returned and abort when the call ends the process instead of returning. *)
(***************************************************************************)
\* (uint32_t) of the double num / 10000: the fraction is dropped towards 0
double_to_uint32(num, wild) ==
    IF num <= -10000 THEN wild
    ELSE IF num < 0 THEN 0
    ELSE num \div 10000

\* old.prix * factor of an attempt, in ten-thousandths
grow_scaled(old, draw, attempt) ==
    old.prix * ((old.growth * 100) + (old.attempt * attempt * 100)
                    + (old.random * draw.sample))

\* a prime index of an attempt without the lower bound old.prix + attempt
grow_prix_unbounded(old, draw, attempt) ==
    double_to_uint32(grow_scaled(old, draw, attempt), draw.wild)

\* the prime index of an attempt: (uint32_t)(old.prix * factor), at least old.prix + attempt
grow_prix(old, draw, attempt) ==
    Bind(double_to_uint32(grow_scaled(old, draw, attempt), draw.wild), LAMBDA prix :
    IF prix < old.prix + attempt THEN old.prix + attempt ELSE prix)

\* the draws of a call that does not reach the grow loop
NoRand == <<[sample |-> 0, wild |-> 0], [sample |-> 0, wild |-> 0]>>

RECURSIVE grow(_, _, _, _, _)
grow(old, key, data, rand, attempt) ==
    Bind(fresh(old, grow_prix(old, rand[IF attempt <= Len(rand) THEN attempt ELSE Len(rand)],
                              attempt)), LAMBDA new :
    Bind(cfix_cuckoo(new, key, data, CFIX_TTL(new)), LAMBDA first :
    IF first.abort \/ ~first.ok THEN Ended(old)
    ELSE
    Bind(reinsert([first.h EXCEPT !.min = key, !.max = key, !.keys = first.h.keys + 1],
                  old, 0, 0), LAMBDA rest :
    IF rest.abort THEN Ended(old)
    ELSE IF rest.ok
    THEN After(<<Reuse(new), Recycle(old)>>,
               Returned([rest.h EXCEPT !.version = old.version + 1], TRUE))
    ELSE After(<<Reuse(new), Recycle(new)>>,
               grow(old, key, data, rand, attempt + 1)))))

\* a fill test that never sends the call to the grow loop
never_filled(h) == FALSE

\* the fill test of cfix_insert: (keys + 1) / (bins * CFIX_BIN_SIZE) > upper
Filled(h) == (h.keys + 1) * 100 > h.upper * h.bins * CFIX_BIN_SIZE

\* an insert of CFIX_INF that leaves the key count as it is
insert_inf_uncounted(h, data) ==
    IF ~h.infdata
    THEN Returned([h EXCEPT !.infdata = TRUE, !._infdata = data], TRUE)
    ELSE Returned(h, FALSE)

\* an insert of CFIX_INF that copies the data also when the key is present
insert_inf_overwrite(h, data) ==
    IF ~h.infdata
    THEN Returned([h EXCEPT !.infdata = TRUE, !._infdata = data,
                            !.keys = h.keys + 1], TRUE)
    ELSE Returned([h EXCEPT !._infdata = data], FALSE)

\* the branch of cfix_insert for key CFIX_INF
insert_inf(h, data) ==
    IF ~h.infdata
    THEN Returned([h EXCEPT !.infdata = TRUE, !._infdata = data,
                            !.keys = h.keys + 1], TRUE)
    ELSE Returned(h, FALSE)

\* an insert that does not look for the key before it places it
insert_unlocated(h, key, data, rand) ==
    IF key = CFIX_INF THEN insert_inf(h, data)
    ELSE
    Bind(IF Filled(h) THEN Failed(h) ELSE cfix_cuckoo(h, key, data, CFIX_TTL(h)),
         LAMBDA c :
    IF c.abort THEN Ended(h)
    ELSE IF c.ok
    THEN Returned([count_key(c.h, key) EXCEPT !.version = h.version + 1], TRUE)
    ELSE grow(h, key, data, rand, 1))

cfix_insert(h, key, data, rand) ==
    IF key = CFIX_INF THEN insert_inf(h, data)
    ELSE
    Bind(cfix_locate(h, key), LAMBDA loc :
    IF loc.abort THEN Ended(h)
    ELSE IF loc.found THEN Returned(h, FALSE)
    ELSE
    Bind(IF Filled(h) THEN Failed(h) ELSE cfix_cuckoo(h, key, data, CFIX_TTL(h)),
         LAMBDA c :
    IF c.abort THEN Ended(h)
    ELSE IF c.ok
    THEN Returned([count_key(c.h, key) EXCEPT !.version = h.version + 1], TRUE)
    ELSE grow(h, key, data, rand, 1)))

\* the call reaches the grow loop, where drand48() is called
Grows(h, key, data) ==
    /\ key # CFIX_INF
    /\ Bind(cfix_locate(h, key), LAMBDA loc : ~loc.found /\ ~loc.abort)
    /\ \/ Filled(h)
       \/ Bind(cfix_cuckoo(h, key, data, CFIX_TTL(h)), LAMBDA c : ~c.ok /\ ~c.abort)

(***************************************************************************)
(* cfix_delete, with the shrink loop                                       *)
(***************************************************************************)
cfix_shrinkable(h) ==
    IF h.keys <= CFIX_BIN_SIZE THEN FALSE
    ELSE h.keys * 100 < h.lower * h.bins * CFIX_BIN_SIZE

\* the downward search for shrink_prix; -1 when the index passes below 0
RECURSIVE shrink_prix_from(_, _)
shrink_prix_from(shrink_keys, shrink_prix) ==
    IF shrink_prix < 0 THEN -1
    ELSE IF shrink_keys < hash_primes_index_to_number(shrink_prix) * CFIX_BIN_SIZE
    THEN shrink_prix_from(shrink_keys, shrink_prix - 1)
    ELSE shrink_prix

\* a shrink loop that returns with the bins as they are
shrink_none(old, shrink_prix, attempt) == Returned(old, TRUE)

RECURSIVE shrink(_, _, _)
shrink(old, shrink_prix, attempt) ==
    IF ~(shrink_prix + attempt < old.prix) THEN Ended(old)
    ELSE
    Bind(reinsert(fresh(old, shrink_prix + attempt), old, 0, 0), LAMBDA rest :
    IF rest.abort THEN Ended(old)
    ELSE IF rest.ok
    THEN After(<<Reuse(rest.h), Recycle(old)>>, Returned(rest.h, TRUE))
    ELSE After(<<Reuse(rest.h), Recycle(rest.h)>>,
               shrink(old, shrink_prix, attempt + 1)))

\* the entry at base, offset is cleared and the counters follow
delete_entry(h, base, offset) ==
    Bind([cfix_roll_right(
              cfix_data_clear([h EXCEPT !.bin[base][offset].key = CFIX_INF], base, offset),
              base, offset)
            EXCEPT !.keys = h.keys - 1, !.version = h.version + 1], LAMBDA counted :
    IF counted.keys = 0
    THEN [counted EXCEPT !.min = CFIX_INF, !.max = CFIX_INF]
    ELSE counted)

\* a delete of CFIX_INF that does not test whether the key is present
delete_inf_blind(h) ==
    Returned([h EXCEPT !.infdata = FALSE, !.keys = h.keys - 1], TRUE)

\* the branch of cfix_delete for key CFIX_INF
delete_inf(h) ==
    IF ~h.infdata
    THEN Returned(h, FALSE)
    ELSE Returned([h EXCEPT !.infdata = FALSE, !.keys = h.keys - 1], TRUE)

cfix_delete(h, key) ==
    IF key = CFIX_INF THEN delete_inf(h)
    ELSE
    Bind(cfix_locate(h, key), LAMBDA loc :
    IF loc.abort THEN Ended(h)
    ELSE IF ~loc.found THEN Returned(h, FALSE)
    ELSE
    Bind(delete_entry(h, loc.base, loc.offset), LAMBDA h1 :
    IF ~cfix_shrinkable(h1) THEN Returned(h1, TRUE)
    ELSE
    Bind(shrink_prix_from(((h1.upper + h1.lower) * h1.bins * CFIX_BIN_SIZE) \div 200,
                          h1.prix), LAMBDA shrink_prix :
    IF shrink_prix < 0 THEN Ended(h)
    ELSE shrink(h1, shrink_prix, 1))))

(***************************************************************************)
(* cfix_rebuild; ratio in hundredths                                       *)
(***************************************************************************)
CFIX_RATIO_MIN == 1

\* a rebuild that re-inserts none of the old entries
rebuild_from_empty(old, prix) ==
    Returned([fresh(old, prix) EXCEPT !.version = old.version + 1], TRUE)

RECURSIVE rebuild_from(_, _)
rebuild_from(old, prix) ==
    Bind(reinsert(fresh(old, prix), old, 0, 0), LAMBDA rest :
    IF rest.abort THEN Ended(old)
    ELSE IF rest.ok
    THEN After(<<Reuse(rest.h), Recycle(old)>>,
               Returned([rest.h EXCEPT !.version = old.version + 1], TRUE))
    ELSE After(<<Reuse(rest.h), Recycle(rest.h)>>, rebuild_from(old, prix + 1)))

cfix_rebuild(h, ratio) ==
    IF ~(CFIX_RATIO_MIN <= ratio /\ ratio <= 100) THEN Ended(h)
    ELSE rebuild_from(h, cfix_keys_to_prix((h.keys * 100) \div ratio))

(***************************************************************************)
(* cfix_lookup and cfix_update                                             *)
(***************************************************************************)
\* what the call stores at data: nothing when the table has no data words
cfix_data_retrieve(h, src_base, src_offset) == CFIX_DATA(h, src_base, src_offset)

cfix_lookup(h, key) ==
    IF key = CFIX_INF
    THEN IF ~h.infdata
         THEN [ret |-> FALSE, data |-> << >>, abort |-> FALSE]
         ELSE [ret |-> TRUE, data |-> h._infdata, abort |-> FALSE]
    ELSE
    Bind(cfix_locate(h, key), LAMBDA loc :
    IF loc.abort \/ ~loc.found THEN [ret |-> FALSE, data |-> << >>, abort |-> loc.abort]
    ELSE [ret |-> TRUE, data |-> cfix_data_retrieve(h, loc.base, loc.offset),
          abort |-> FALSE])

\* an update that counts the version and stores nothing
update_unstored(h, key, data) ==
    IF cfix_lookup(h, key).ret
    THEN Returned([h EXCEPT !.version = h.version + 1], TRUE)
    ELSE Returned(h, FALSE)

\* an update that stores the data in the first slot of the bin of the key
update_head(h, key, data) ==
    IF key = CFIX_INF
    THEN IF ~h.infdata
         THEN Returned(h, FALSE)
         ELSE Returned([h EXCEPT !._infdata = data], TRUE)
    ELSE
    Bind(cfix_locate(h, key), LAMBDA loc :
    IF loc.abort THEN Ended(h)
    ELSE IF ~loc.found THEN Returned(h, FALSE)
    ELSE Returned([cfix_data_store(h, data, loc.base, 0)
                     EXCEPT !.version = h.version + 1], TRUE))

cfix_update(h, key, data) ==
    IF key = CFIX_INF
    THEN IF ~h.infdata
         THEN Returned(h, FALSE)
         ELSE Returned([h EXCEPT !._infdata = data], TRUE)
    ELSE
    Bind(cfix_locate(h, key), LAMBDA loc :
    IF loc.abort THEN Ended(h)
    ELSE IF ~loc.found THEN Returned(h, FALSE)
    ELSE Returned([cfix_data_store(h, data, loc.base, loc.offset)
                     EXCEPT !.version = h.version + 1], TRUE))

(***************************************************************************)
(* cfix_stats: the histogram of the bin counts and the number of keys that *)
(* lie in the bin of their first hash function                             *)
(***************************************************************************)
\* every key of bin b from offset o on, up to the first CFIX_INF
primary_all(h, b, o) ==
    Cardinality({p \in o .. (CFIX_BIN_SIZE - 1) :
                    \A q \in o .. p : CFIX_KEY(h, b, q) # CFIX_INF})

\* the inner loop of cfix_stats: what bin b adds to stats->primary, the keys
\* from offset o on, up to the first CFIX_INF, whose first hash is b
primary_from(h, b, o) ==
    Cardinality({p \in o .. (CFIX_BIN_SIZE - 1) :
                    /\ \A q \in o .. p : CFIX_KEY(h, b, q) # CFIX_INF
                    /\ b = H1(h, CFIX_KEY(h, b, p))})

RECURSIVE stats_from(_, _, _)
stats_from(h, stats, b) ==
    IF b = h.bins THEN stats
    ELSE stats_from(h, [stats EXCEPT !.hist[cfix_bin_count(h, b)] = @ + 1,
                                     !.primary = @ + primary_from(h, b, 0)],
                    b + 1)

cfix_stats(h) ==
    stats_from(h, [primary |-> 0, hist |-> [i \in 0 .. CFIX_BIN_SIZE |-> 0]], 0)

(***************************************************************************)
(* The iterator: a record of cfix_iter's h, version, base and offset       *)
(***************************************************************************)
\* the loop of cfix_iter_forward: it leaves iter where it is past the last bin
\* or on a key, and else at offset 0 of the first later bin whose first slot
\* holds a key, or of bin h.bins when there is none
iter_skip(h, iter) ==
    IF ~(iter.base < h.bins) THEN iter
    ELSE IF CFIX_KEY(h, iter.base, iter.offset) # CFIX_INF THEN iter
    ELSE [iter EXCEPT
            !.offset = 0,
            !.base = CHOOSE b \in (iter.base + 1) .. h.bins :
                         /\ b < h.bins => CFIX_KEY(h, b, 0) # CFIX_INF
                         /\ \A c \in (iter.base + 1) .. (b - 1) :
                                CFIX_KEY(h, c, 0) = CFIX_INF]

\* a cfix_iter_forward that stops after the last bin
iter_forward_bins(h, iter) ==
    IF iter.version # h.version
    THEN [iter |-> iter, ret |-> CFIX_ITER_INVALID]
    ELSE
    Bind(iter_skip(h, IF iter.offset + 1 = CFIX_BIN_SIZE
                      THEN [iter EXCEPT !.offset = 0, !.base = iter.base + 1]
                      ELSE [iter EXCEPT !.offset = iter.offset + 1]), LAMBDA at :
    IF at.base = h.bins
    THEN [iter |-> at, ret |-> CFIX_ITER_FAILURE]
    ELSE [iter |-> at, ret |-> CFIX_ITER_SUCCESS])

cfix_iter_forward(h, iter) ==
    IF iter.version # h.version
    THEN [iter |-> iter, ret |-> CFIX_ITER_INVALID]
    ELSE
    Bind(iter_skip(h, IF iter.offset + 1 = CFIX_BIN_SIZE
                      THEN [iter EXCEPT !.offset = 0, !.base = iter.base + 1]
                      ELSE [iter EXCEPT !.offset = iter.offset + 1]), LAMBDA at :
    IF at.base = h.bins
    THEN IF at.offset = 0 /\ h.infdata
         THEN [iter |-> at, ret |-> CFIX_ITER_SUCCESS]
         ELSE [iter |-> at, ret |-> CFIX_ITER_FAILURE]
    ELSE [iter |-> at, ret |-> CFIX_ITER_SUCCESS])

cfix_iter_reset(h, iter) ==
    Bind([iter EXCEPT !.version = h.version, !.base = 0, !.offset = 0], LAMBDA start :
    IF h.keys = 0 THEN [iter |-> start, abort |-> FALSE]
    ELSE IF CFIX_KEY(h, 0, 0) # CFIX_INF THEN [iter |-> start, abort |-> FALSE]
    ELSE Bind(cfix_iter_forward(h, start), LAMBDA f :
         [iter |-> f.iter, abort |-> f.ret # CFIX_ITER_SUCCESS]))

cfix_iter_current(h, iter) ==
    IF iter.version # h.version
    THEN [ret |-> CFIX_ITER_INVALID, key |-> CFIX_INF, data |-> << >>, abort |-> FALSE]
    ELSE IF iter.base = h.bins
    THEN IF iter.offset = 0 /\ h.infdata
         THEN [ret |-> CFIX_ITER_SUCCESS, key |-> CFIX_INF, data |-> h._infdata,
               abort |-> FALSE]
         ELSE [ret |-> CFIX_ITER_FAILURE, key |-> CFIX_INF, data |-> << >>,
               abort |-> FALSE]
    ELSE IF ~(iter.base < h.bins) \/ ~(iter.offset < CFIX_BIN_SIZE)
    THEN [ret |-> CFIX_ITER_FAILURE, key |-> CFIX_INF, data |-> << >>, abort |-> TRUE]
    ELSE IF CFIX_KEY(h, iter.base, iter.offset) = CFIX_INF
    THEN [ret |-> CFIX_ITER_FAILURE, key |-> CFIX_INF, data |-> << >>, abort |-> TRUE]
    ELSE [ret |-> CFIX_ITER_SUCCESS, key |-> CFIX_KEY(h, iter.base, iter.offset),
          data |-> cfix_data_retrieve(h, iter.base, iter.offset), abort |-> FALSE]

(***************************************************************************)
(* The traversal of main(): after cfix_iter_create, cfix_iter_current is   *)
(* asserted to succeed and cfix_iter_forward is called, for as long as the *)
(* latter returns CFIX_ITER_SUCCESS.  yield is the sequence of the         *)
(* <<key, data>> pairs that cfix_iter_current gave; ok is false when a     *)
(* cfix_iter_current did not return CFIX_ITER_SUCCESS.                     *)
(***************************************************************************)
RECURSIVE iter_loop(_, _, _)
RECURSIVE iter_turns(_, _, _)

\* after cfix_iter_forward: the loop goes on at f.iter (more), or ends
iter_loop_next(h, f, yield) ==
    [more |-> f.ret = CFIX_ITER_SUCCESS, iter |-> f.iter,
     ok |-> TRUE, abort |-> FALSE, yield |-> yield]

\* one turn of the loop, with the iterator at iter
iter_turn(h, iter, yield) ==
    Bind(cfix_iter_current(h, iter), LAMBDA c :
    IF c.abort \/ c.ret # CFIX_ITER_SUCCESS
    THEN [more |-> FALSE, iter |-> iter, ok |-> FALSE, abort |-> c.abort, yield |-> yield]
    ELSE iter_loop_next(h, cfix_iter_forward(h, iter), Append(yield, <<c.key, c.data>>)))

\* up to n further turns after the turns that came to turn
iter_rest(h, turn, n) ==
    IF turn.more THEN iter_turns(h, turn, n) ELSE turn

\* up to n turns, the first half of them before the rest
iter_turns(h, turn, n) ==
    IF n = 1 THEN iter_turn(h, turn.iter, turn.yield)
    ELSE iter_rest(h, iter_turns(h, turn, n \div 2), n - (n \div 2))

\* the loop, a turn for every slot of the table at a time
iter_loop(h, iter, yield) ==
    Bind(iter_turns(h, [iter |-> iter, yield |-> yield], (h.bins * CFIX_BIN_SIZE) + 1),
         LAMBDA last :
    IF last.more THEN iter_loop(h, last.iter, last.yield)
    ELSE [ok |-> last.ok, abort |-> last.abort, yield |-> last.yield])

iter_traverse(h) ==
    Bind(cfix_iter_reset(h, [h |-> "table", version |-> 0, base |-> 0, offset |-> 0]),
         LAMBDA r :
    IF r.abort THEN [ok |-> FALSE, abort |-> TRUE, yield |-> << >>]
    ELSE iter_loop(h, r.iter, << >>))

(***************************************************************************)
(* cfix_apply.  The callback fun is a record: invoked for key fun.at it    *)
(* calls the operation fun.op on the table being traversed, as compromise  *)
(* of cfix_main.c calls cfix_delete, and for the other keys, or with op    *)
(* "none", it calls nothing.  calls is the sequence of the <<key, data>>   *)
(* pairs the callback was invoked with; mutated tells whether an operation *)
(* of the callback took effect; end is "return", "exit" for exit(1), or    *)
(* "abort" when the callback's operation failed an assertion.              *)
(***************************************************************************)
NoFun == [at |-> CFIX_INF, op |-> "none", key |-> CFIX_INF, data |-> << >>,
          rand |-> NoRand, ratio |-> 100]

fun_call(h, fun) ==
    IF fun.op = "insert" THEN cfix_insert(h, fun.key, fun.data, fun.rand)
    ELSE IF fun.op = "delete" THEN cfix_delete(h, fun.key)
    ELSE IF fun.op = "update" THEN cfix_update(h, fun.key, fun.data)
    ELSE cfix_rebuild(h, fun.ratio)

\* the call fun(key, data, aux)
Invoke(h, fun, key) ==
    IF fun.op = "none" \/ key # fun.at
    THEN [h |-> h, mutated |-> FALSE, abort |-> FALSE]
    ELSE Bind(fun_call(h, fun), LAMBDA r :
         [h |-> r.h, mutated |-> ~r.abort /\ r.ret, abort |-> r.abort])

\* a traversal that leaves out the entry of CFIX_INF
apply_inf_none(h, fun, calls, mutated) ==
    [h |-> h, calls |-> calls, mutated |-> mutated, end |-> "return"]

\* the call for the entry of CFIX_INF, after the loop over the bins
apply_inf(h, fun, calls, mutated) ==
    IF ~h.infdata
    THEN [h |-> h, calls |-> calls, mutated |-> mutated, end |-> "return"]
    ELSE Bind(Invoke(h, fun, CFIX_INF), LAMBDA r :
         [h |-> r.h,
          calls |-> Append(calls, <<CFIX_INF, h._infdata>>),
          mutated |-> (mutated \/ r.mutated),
          end |-> IF r.abort THEN "abort" ELSE "return"])

RECURSIVE apply_from(_, _, _, _, _, _, _)
RECURSIVE apply_turns(_, _, _, _, _)

\* what follows the call of fun in the loop: the version test; end is "loop"
\* when the loop goes on
apply_next(r, fun, version, base, offset, calls, mutated) ==
    IF r.abort
    THEN [h |-> r.h, calls |-> calls, mutated |-> mutated, end |-> "abort"]
    ELSE IF version # r.h.version
    THEN [h |-> r.h, calls |-> calls, mutated |-> (mutated \/ r.mutated),
          end |-> "exit"]
    ELSE [h |-> r.h, calls |-> calls, mutated |-> (mutated \/ r.mutated),
          end |-> "loop"]

\* where the loops stand: run is what they came to, left the bin the inner
\* loop has left at a CFIX_INF (break), more whether they go on
apply_at(run, left) == [run |-> run, left |-> left, more |-> run.end = "loop"]

\* the turn of the loops for the slot at base, offset
apply_turn(at, fun, version, base, offset) ==
    IF ~(base < at.run.h.bins) \/ at.left = base THEN at
    ELSE IF CFIX_KEY(at.run.h, base, offset) = CFIX_INF THEN [at EXCEPT !.left = base]
    ELSE apply_at(apply_next(Invoke(at.run.h, fun, CFIX_KEY(at.run.h, base, offset)),
                             fun, version, base, offset,
                             Append(at.run.calls, <<CFIX_KEY(at.run.h, base, offset),
                                                    CFIX_DATA(at.run.h, base, offset)>>),
                             at.run.mutated),
                  at.left)

\* the turns for the slots lo .. hi - 1 after the turns before them came to
\* at: none after the exit or an abort
apply_rest(at, fun, version, lo, hi) ==
    IF at.more THEN apply_turns(at, fun, version, lo, hi) ELSE at

\* the turns for the slots numbered lo .. hi - 1, bin by bin, in order, the
\* lower half before the upper half
apply_turns(at, fun, version, lo, hi) ==
    IF hi - lo = 1
    THEN apply_turn(at, fun, version, lo \div CFIX_BIN_SIZE, lo % CFIX_BIN_SIZE)
    ELSE apply_rest(apply_turns(at, fun, version, lo, (lo + hi) \div 2),
                    fun, version, (lo + hi) \div 2, hi)

\* the loops from the slot at base, offset on, and the call for CFIX_INF
apply_from(h, fun, version, base, offset, calls, mutated) ==
    IF ~(base < h.bins) THEN apply_inf(h, fun, calls, mutated)
    ELSE
    Bind(apply_turns(apply_at([h |-> h, calls |-> calls, mutated |-> mutated,
                               end |-> "loop"], -1),
                     fun, version, (base * CFIX_BIN_SIZE) + offset,
                     h.bins * CFIX_BIN_SIZE).run, LAMBDA run :
    IF run.end # "loop" THEN run
    ELSE apply_from(run.h, fun, version, h.bins, 0, run.calls, run.mutated))

cfix_apply(h, fun) == apply_from(h, fun, h.version, 0, 0, << >>, FALSE)

(***************************************************************************)
(* The state machine.  As in main(), a table is created, a loading loop    *)
(* inserts the keys of a list one after the other with data ~key, and then *)
(* operations with arbitrary arguments follow.  A call that fails one of   *)
(* the code's assertions ends the process: status becomes "abort" and no   *)
(* further call is made.                                                   *)
(***************************************************************************)
VARIABLES
    h,       \* the table, a record of struct cfix's fields
    iter,    \* the iterator, a record of struct cfix_iter's fields
    status,  \* "run", or "abort" once a call has ended the process
    ret,     \* the last call: its name, key, data and what it returned
    shadow,  \* the keys inserted and not deleted since, with their latest data
    touched, \* a call has changed the stored entries since the iterator's last reset
    load,    \* the keys the loading loop has yet to insert
    free,    \* the keys the operations after the loading loop take
    ops,     \* the number of operations made after the loading loop
    twin,    \* the table cfix_clone made, where there is one
    heap,    \* the bin arrays by address, where tables are held by pointer
    m2       \* the handles of the memory manager, by identifier

vars == <<h, iter, status, ret, shadow, touched, load, free, ops, twin, heap, m2>>

MaxOps == 2

\* the values of drand48() taken, in hundredths, and the ratios of rebuild
Samples == {0, 99}

\* the values an undefined conversion to uint32_t is taken to yield
Wilds == {0, 6}

\* what an attempt of the grow loop of table t can draw; the conversion is
\* defined for every attempt when no coefficient is negative
Draws(t) ==
    {[sample |-> sample, wild |-> wild] :
         sample \in Samples,
         wild \in IF t.growth < 0 \/ t.attempt < 0 \/ t.random < 0 THEN Wilds ELSE {0}}

Rands(t) == [1 .. 2 -> Draws(t)]
Ratios == {25, 100}

\* the data words a caller passes for a table of this entry size
Words == {Key(1), Key(2)}
DataOf(t) == IF t.size = 1 THEN {<< >>} ELSE {<<w>> : w \in Words}
LoadData(t, key) == IF t.size = 1 THEN << >> ELSE <<Not32(key)>>

Conf(start, data, depth, lower, upper) ==
    [start |-> start, data |-> data, depth |-> depth, lower |-> lower,
     upper |-> upper, growth |-> 150, attempt |-> 50, random |-> 50]

Prefix(seq, n) == [i \in 1 .. n |-> seq[i]]

Scenarios ==
    { [conf |-> Conf(10, 1, 3, 0, 100), load |-> << >>,
       free |-> {Key(0), Key(45), CFIX_INF}],
      [conf |-> Conf(10, 1, 3, 0, 100), load |-> LoadSpread,
       free |-> {Key(1), BigKey, CFIX_INF}],
      [conf |-> Conf(10, 1, 1, 0, 100), load |-> LoadClash,
       free |-> {Key(7), ClashKey, CFIX_INF}],
      [conf |-> Conf(10, 0, 4, 0, 25), load |-> Prefix(LoadSpread, 13),
       free |-> {Key(1), Key(45), CFIX_INF}],
      [conf |-> Conf(80, 1, 3, 25, 75), load |-> LoadSpread \o <<Key(7), Key(52)>>,
       free |-> {Key(1), Key(45), CFIX_INF}],
      [conf |-> Conf(33, 1, 3, 50, 100), load |-> LoadSpread \o <<Key(7), Key(52)>>,
       free |-> {Key(1), Key(45), CFIX_INF}],
      [conf |-> Conf(10, 1, 0, 0, 100), load |-> << >>,
       free |-> {Key(0), CFIX_INF}],
      [conf |-> Conf(10, 0, 4, 0, 25), load |-> Prefix(LoadSpread, 8),
       free |-> {Key(45), CFIX_INF}] }

IterScenarios ==
    { [conf |-> Conf(10, 1, 3, 0, 100), load |-> <<Key(1), Key(2), Key(3)>>,
       free |-> {Key(1), Key(45), CFIX_INF}],
      [conf |-> Conf(10, 0, 3, 0, 100), load |-> << >>,
       free |-> {Key(0), CFIX_INF}] }

NoCall == [op |-> "none", key |-> CFIX_INF, data |-> << >>, ok |-> FALSE, status |-> ""]

Call(op, key, data, ok) ==
    [op |-> op, key |-> key, data |-> data, ok |-> ok, status |-> ""]

IterCall(op, key, data, st) ==
    [op |-> op, key |-> key, data |-> data, ok |-> st = CFIX_ITER_SUCCESS, status |-> st]

\* no table has been created
NoTable == [bins |-> 0]

\* no iterator has been created
NoIter == [h |-> "none", version |-> 0, base |-> 0, offset |-> 0]

InitOver(scenarios) ==
    \E sc \in scenarios :
        /\ ConfigOk(sc.conf)
        /\ h = cfix_create(sc.conf)
        /\ iter = NoIter
        /\ status = "run"
        /\ ret = NoCall
        /\ shadow = << >>
        /\ touched = FALSE
        /\ load = sc.load
        /\ free = sc.free
        /\ ops = 0
        /\ twin = NoTable
        /\ heap = << >>
        /\ m2 = << >>

Init == InitOver(Scenarios)

\* the call fails an assertion: the process ends inside it
Abort(op, key, data) ==
    /\ status' = "abort"
    /\ ret' = Call(op, key, data, FALSE)
    /\ UNCHANGED <<h, iter, shadow, touched, load, free, ops, twin, heap, m2>>

Put(map, key, data) ==
    [x \in (DOMAIN map) \cup {key} |-> IF x = key THEN data ELSE map[x]]

Drop(map, key) == [x \in (DOMAIN map) \ {key} |-> map[x]]

RandFor(key, data) ==
    IF Grows(h, key, data) THEN Rands(h) ELSE {NoRand}

\* the loading loop of main(): one cfix_insert of the next key of the list
Load ==
    /\ status = "run"
    /\ load # << >>
    /\ LET key == Head(load)
           data == LoadData(h, key)
       IN  \E rand \in RandFor(key, data) :
               \E r \in {cfix_insert(h, key, data, rand)} :
               IF r.abort THEN Abort("insert", key, data)
               ELSE /\ h' = r.h
                    /\ ret' = Call("insert", key, data, r.ret)
                    /\ shadow' = IF r.ret THEN Put(shadow, key, data) ELSE shadow
                    /\ touched' = (touched \/ r.ret)
                    /\ load' = Tail(load)
                    /\ UNCHANGED <<iter, status, free, ops, twin, heap, m2>>

Ready == status = "run" /\ load = << >> /\ ops < MaxOps

Insert ==
    /\ Ready
    /\ \E key \in free : \E data \in DataOf(h) : \E rand \in RandFor(key, data) :
           \E r \in {cfix_insert(h, key, data, rand)} :
           IF r.abort THEN Abort("insert", key, data)
           ELSE /\ h' = r.h
                /\ ret' = Call("insert", key, data, r.ret)
                /\ shadow' = IF r.ret THEN Put(shadow, key, data) ELSE shadow
                /\ touched' = (touched \/ r.ret)
                /\ ops' = ops + 1
                /\ UNCHANGED <<iter, status, load, free, twin, heap, m2>>

Delete ==
    /\ Ready
    /\ \E key \in free :
           \E r \in {cfix_delete(h, key)} :
           IF r.abort THEN Abort("delete", key, << >>)
           ELSE /\ h' = r.h
                /\ ret' = Call("delete", key, << >>, r.ret)
                /\ shadow' = IF r.ret THEN Drop(shadow, key) ELSE shadow
                /\ touched' = (touched \/ r.ret)
                /\ ops' = ops + 1
                /\ UNCHANGED <<iter, status, load, free, twin, heap, m2>>

Update ==
    /\ Ready
    /\ \E key \in free : \E data \in DataOf(h) :
           \E r \in {cfix_update(h, key, data)} :
           IF r.abort THEN Abort("update", key, data)
           ELSE /\ h' = r.h
                /\ ret' = Call("update", key, data, r.ret)
                /\ shadow' = IF r.ret THEN Put(shadow, key, data) ELSE shadow
                /\ touched' = (touched \/ r.ret)
                /\ ops' = ops + 1
                /\ UNCHANGED <<iter, status, load, free, twin, heap, m2>>

Lookup ==
    /\ Ready
    /\ \E key \in free :
           \E r \in {cfix_lookup(h, key)} :
           IF r.abort THEN Abort("lookup", key, << >>)
           ELSE /\ ret' = Call("lookup", key, r.data, r.ret)
                /\ ops' = ops + 1
                /\ UNCHANGED <<h, iter, status, shadow, touched, load, free, twin, heap, m2>>

Rebuild ==
    /\ Ready
    /\ \E ratio \in Ratios :
           \E r \in {cfix_rebuild(h, ratio)} :
           IF r.abort THEN Abort("rebuild", CFIX_INF, << >>)
           ELSE /\ h' = r.h
                /\ ret' = Call("rebuild", CFIX_INF, << >>, TRUE)
                /\ touched' = TRUE
                /\ ops' = ops + 1
                /\ UNCHANGED <<iter, status, shadow, load, free, twin, heap, m2>>

Next == Load \/ Insert \/ Delete \/ Update \/ Lookup \/ Rebuild

Spec == Init /\ [][Next]_vars

(***************************************************************************)
(* Tables whose entries were placed in an order other than the order of    *)
(* the bins, which is the order a rebuild places them in.                  *)
(***************************************************************************)
RebuildScenarios ==
    { [conf |-> Conf(10, 1, 1, 0, 100), load |-> LoadSecond,
       free |-> {Key(77), Key(45), CFIX_INF}],
      [conf |-> Conf(10, 1, 3, 0, 100), load |-> LoadSecond,
       free |-> {Key(77), Key(45), CFIX_INF}] }

InitRebuild == InitOver(RebuildScenarios)

SpecRebuild == InitRebuild /\ [][Next]_vars

(***************************************************************************)
(* Tables created with more bins than their keys need, so that a delete    *)
(* finds them below the lower threshold.                                   *)
(***************************************************************************)
ShrinkScenarios ==
    { [conf |-> Conf(80, 1, 3, 50, 60), load |-> LoadSpread \o <<Key(7), Key(52)>>,
       free |-> {Key(1), Key(45), CFIX_INF}],
      [conf |-> Conf(80, 0, 3, 25, 75), load |-> LoadSpread \o <<Key(7), Key(52)>>,
       free |-> {Key(1), Key(2)}] }

InitShrink == InitOver(ShrinkScenarios)

SpecShrink == InitShrink /\ [][Next]_vars

(***************************************************************************)
(* Tables with both bins of a key full, where a placement has to move      *)
(* occupants: 2 bins with 16 keys each, and 2 bins with 16 keys that have  *)
(* no other bin.                                                           *)
(***************************************************************************)
CuckooScenarios ==
    { [conf |-> Conf(10, 1, 2, 0, 100), load |-> LoadClash \o Prefix(LoadSecond, 16),
       free |-> {Key(45), Key(54)}],
      [conf |-> Conf(10, 1, 1, 0, 100), load |-> LoadClash,
       free |-> {Key(45), ClashKey, Key(54)}],
      [conf |-> Conf(10, 1, 2, 0, 100), load |-> LoadMixed,
       free |-> {Key(11), BigKey}],
      [conf |-> Conf(10, 1, 3, 0, 100), load |-> LoadLone,
       free |-> {Key(9), ClashKey}] }

InitCuckoo == InitOver(CuckooScenarios)

(***************************************************************************)
(* Tables of 3 bins whose next insert runs the grow loop, with growth,     *)
(* attempt and random coefficients that are zero, negative and large:      *)
(* cfix_create takes any value for them.                                   *)
(***************************************************************************)
Coef(conf, growth, attempt, random) ==
    [conf EXCEPT !.growth = growth, !.attempt = attempt, !.random = random]

GrowScenarios ==
    { [conf |-> Conf(40, 1, 1, 0, 100), load |-> LoadClash,
       free |-> {ClashKey, Key(45)}] }
    \cup { [conf |-> Coef(Conf(40, 1, 1, 0, 34), c[1], c[2], c[3]), load |-> LoadFive,
            free |-> {FiveKey, Key(45)}] :
                c \in {<<0, 0, 0>>, <<-100, 0, 0>>, <<-30, 0, 0>>, <<400, -350, 50>>} }

InitGrow == InitOver(GrowScenarios)

SpecGrow == InitGrow /\ [][Next]_vars

SpecCuckoo == InitCuckoo /\ [][Next]_vars

\* the values of ttl a placement is called with
Ttls == {0, 1, 2}

(***************************************************************************)
(* The same table with cfix_stats called between the other operations, as  *)
(* main() calls it; cfix_stats writes to *stats only.                      *)
(***************************************************************************)
Stats ==
    /\ Ready
    /\ ret' = [op |-> "stats", key |-> CFIX_INF, data |-> << >>, ok |-> TRUE,
               status |-> "", stats |-> cfix_stats(h)]
    /\ ops' = ops + 1
    /\ UNCHANGED <<h, iter, status, shadow, touched, load, free, twin, heap, m2>>

StatsScenarios ==
    { [conf |-> Conf(10, 1, 3, 0, 100), load |-> << >>,
       free |-> {Key(0), CFIX_INF}],
      [conf |-> Conf(10, 1, 3, 0, 100), load |-> LoadSpread \o <<CFIX_INF>>,
       free |-> {Key(1), BigKey, CFIX_INF}],
      [conf |-> Conf(10, 1, 1, 0, 100), load |-> LoadClash \o <<CFIX_INF>>,
       free |-> {Key(7), ClashKey}],
      [conf |-> Conf(80, 1, 3, 25, 75),
       load |-> LoadSpread \o <<Key(7), Key(52), CFIX_INF>>,
       free |-> {Key(1), Key(45)}] }

InitStats == InitOver(StatsScenarios)

NextStats == Load \/ Insert \/ Delete \/ Rebuild \/ Stats

SpecStats == InitStats /\ [][NextStats]_vars

(***************************************************************************)
(* The same table with one iterator on it.  cfix_iter_create makes the     *)
(* iterator once the loading loop is over; reset, current and forward are  *)
(* then called between the other operations.                               *)
(***************************************************************************)
IterCreate ==
    /\ status = "run"
    /\ load = << >>
    /\ iter.h = "none"
    /\ \E r \in {cfix_iter_reset(h, [iter EXCEPT !.h = "table"])} :
       IF r.abort THEN Abort("create", CFIX_INF, << >>)
       ELSE /\ iter' = r.iter
            /\ ret' = Call("create", CFIX_INF, << >>, TRUE)
            /\ touched' = FALSE
            /\ UNCHANGED <<h, status, shadow, load, free, ops, twin, heap, m2>>

IterReady == Ready /\ iter.h = "table"

IterReset ==
    /\ IterReady
    /\ \E r \in {cfix_iter_reset(h, iter)} :
       IF r.abort THEN Abort("reset", CFIX_INF, << >>)
       ELSE /\ iter' = r.iter
            /\ ret' = Call("reset", CFIX_INF, << >>, TRUE)
            /\ touched' = FALSE
            /\ ops' = ops + 1
            /\ UNCHANGED <<h, status, shadow, load, free, twin, heap, m2>>

IterCurrent ==
    /\ IterReady
    /\ \E r \in {cfix_iter_current(h, iter)} :
       IF r.abort THEN Abort("current", CFIX_INF, << >>)
       ELSE /\ ret' = IterCall("current", r.key, r.data, r.ret)
            /\ ops' = ops + 1
            /\ UNCHANGED <<h, iter, status, shadow, touched, load, free, twin, heap, m2>>

IterForward ==
    /\ IterReady
    /\ \E r \in {cfix_iter_forward(h, iter)} :
       /\ iter' = r.iter
       /\ ret' = IterCall("forward", CFIX_INF, << >>, r.ret)
       /\ ops' = ops + 1
       /\ UNCHANGED <<h, status, shadow, touched, load, free, twin, heap, m2>>

InitIter == InitOver(IterScenarios)

NextIter ==
    \/ Load \/ Insert \/ Delete \/ Update \/ Rebuild
    \/ IterCreate \/ IterReset \/ IterCurrent \/ IterForward

SpecIter == InitIter /\ [][NextIter]_vars

(***************************************************************************)
(* A caller that goes on calling cfix_iter_forward for as long as the last *)
(* call was a cfix_iter_forward that returned CFIX_ITER_FAILURE.           *)
(***************************************************************************)
IterAgain ==
    /\ status = "run"
    /\ load = << >>
    /\ iter.h = "table"
    /\ ret.op = "forward"
    /\ ret.status = CFIX_ITER_FAILURE
    /\ \E r \in {cfix_iter_forward(h, iter)} :
       /\ iter' = r.iter
       /\ ret' = IterCall("forward", CFIX_INF, << >>, r.ret)
       /\ UNCHANGED <<h, status, shadow, touched, load, free, ops, twin, heap, m2>>

NextAgain == NextIter \/ IterAgain

SpecAgain == InitIter /\ [][NextAgain]_vars

(***************************************************************************)
(* cfix_bin_locate on its own: bin 0 of a table of 2 bins holds, in        *)
(* ascending order, none or all of the keys of LowKeys and any of the keys *)
(* of DrawnKeys, and the function is called with the keys of ProbeKeys.    *)
(***************************************************************************)
LowKeys == {Key(1), Key(3), Key(5), Key(7), Key(9), Key(11)}

DrawnKeys == {Key(21), Key(23), Key(25), Key(27), Key(29), Key(31), Key(33),
              Key(35), Key(37), Key(39)}

ProbeKeys == LowKeys \cup DrawnKeys
                 \cup {Key(0), Key(2), Key(12), Key(20), Key(30), Key(40), BigKey}

\* the bin that holds the keys of the set in ascending order
SortedBin(t, set) ==
    [o \in Offsets |->
        IF o < Cardinality(set)
        THEN [key |-> CHOOSE k \in set : Cardinality({j \in set : Less32(j, k)}) = o,
              data |-> NoData(t)]
        ELSE [key |-> CFIX_INF, data |-> NoData(t)]]

InitLocate ==
    /\ \E low \in {{}, LowKeys} : \E drawn \in SUBSET DrawnKeys :
           \E t \in {cfix_create(Conf(10, 0, 1, 0, 100))} :
               h = [t EXCEPT !.bin[0] = SortedBin(t, low \cup drawn),
                             !.keys = Cardinality(low \cup drawn)]
    /\ iter = NoIter
    /\ status = "run"
    /\ ret = NoCall
    /\ shadow = << >>
    /\ touched = FALSE
    /\ load = << >>
    /\ free = ProbeKeys
    /\ ops = 0
    /\ twin = NoTable
    /\ heap = << >>
    /\ m2 = << >>

BinLocate ==
    /\ status = "run"
    /\ ret = NoCall
    /\ \E key \in free :
           \E r \in {cfix_bin_locate(h, 0, key)} :
               /\ status' = IF r.abort THEN "abort" ELSE "run"
               /\ ret' = [op |-> "bin_locate", key |-> key, data |-> << >>,
                          ok |-> r.hit, status |-> "", offset |-> r.offset]
    /\ UNCHANGED <<h, iter, shadow, touched, load, free, ops, twin, heap, m2>>

SpecLocate == InitLocate /\ [][BinLocate]_vars


(***************************************************************************)
(* The same table from before its construction.  cfix_create is called     *)
(* with a pointer to a configuration, <<conf>>, or with NULL, << >>, and   *)
(* the other operations follow on the table it made.                       *)
(***************************************************************************)
CreateScenarios ==
    { [arg |-> << >>, load |-> <<Key(1), Key(2)>>, free |-> {Key(0), CFIX_INF}],
      [arg |-> <<Conf(10, 1, 3, 0, 100)>>, load |-> <<Key(1), Key(2)>>,
       free |-> {Key(0), CFIX_INF}],
      [arg |-> <<Conf(112, 0, 3, 5, 95)>>, load |-> << >>,
       free |-> {Key(45), CFIX_INF}],
      [arg |-> <<Conf(10, 1, 3, 50, 50)>>, load |-> << >>, free |-> {Key(0)}] }

InitCreate ==
    /\ h = NoTable
    /\ iter = NoIter
    /\ status = "new"
    /\ ret = NoCall
    /\ shadow = << >>
    /\ touched = FALSE
    /\ load = << >>
    /\ free = {}
    /\ ops = 0
    /\ twin = NoTable
    /\ heap = << >>
    /\ m2 = << >>

Create ==
    /\ status = "new"
    /\ \E sc \in CreateScenarios :
       \E conf \in {IF sc.arg = << >> THEN default_conf ELSE sc.arg[1]} :
           IF ~ConfigOk(conf)
           THEN /\ status' = "abort"
                /\ ret' = Call("cfix_create", CFIX_INF, sc.arg, FALSE)
                /\ UNCHANGED <<h, iter, shadow, touched, load, free, ops, twin, heap, m2>>
           ELSE /\ h' = cfix_create(conf)
                /\ status' = "run"
                /\ ret' = Call("cfix_create", CFIX_INF, sc.arg, TRUE)
                /\ load' = sc.load
                /\ free' = sc.free
                /\ UNCHANGED <<iter, shadow, touched, ops, twin, heap, m2>>

NextCreate == Create \/ Load \/ Insert \/ Delete \/ Update \/ Lookup \/ Rebuild

SpecCreate == InitCreate /\ [][NextCreate]_vars


(***************************************************************************)
(* The table with cfix_apply among its operations.  The callbacks call one *)
(* operation, with a key of free, when invoked for one key of free.        *)
(***************************************************************************)
ApplyScenarios ==
    { [conf |-> Conf(10, 1, 3, 0, 100), load |-> <<Key(1), Key(2), Key(3)>>,
       free |-> {Key(1), Key(45), CFIX_INF}],
      [conf |-> Conf(10, 1, 3, 0, 100), load |-> LoadSpread,
       free |-> {Key(44), BigKey, CFIX_INF}],
      [conf |-> Conf(80, 1, 3, 25, 75), load |-> LoadSpread \o <<Key(7), Key(52)>>,
       free |-> {Key(1), CFIX_INF}],
      [conf |-> Conf(10, 0, 3, 0, 100), load |-> << >>,
       free |-> {Key(0), CFIX_INF}] }

Callbacks ==
    {NoFun}
    \cup { [NoFun EXCEPT !.at = at, !.op = "insert", !.key = key, !.data = data,
                         !.rand = rand] :
               at \in free, key \in free, data \in DataOf(h),
               rand \in Rands(h) }
    \cup { [NoFun EXCEPT !.at = at, !.op = "update", !.key = key, !.data = data] :
               at \in free, key \in free, data \in DataOf(h) }
    \cup { [NoFun EXCEPT !.at = at, !.op = "delete", !.key = key] :
               at \in free, key \in free }
    \cup { [NoFun EXCEPT !.at = at, !.op = "rebuild", !.ratio = ratio] :
               at \in free, ratio \in Ratios }

\* the caller's map after the operation of the callback took effect
ShadowAfter(fun) ==
    IF fun.op \in {"insert", "update"} THEN Put(shadow, fun.key, fun.data)
    ELSE IF fun.op = "delete" THEN Drop(shadow, fun.key)
    ELSE shadow

Apply ==
    /\ Ready
    /\ \E fun \in Callbacks :
           \E r \in {cfix_apply(h, fun)} :
               /\ h' = r.h
               /\ status' = IF r.end = "return" THEN "run" ELSE r.end
               /\ ret' = [op |-> "apply", key |-> fun.at, data |-> r.calls,
                          ok |-> r.end = "return", status |-> "",
                          fun |-> fun, mutated |-> r.mutated]
               /\ shadow' = IF r.mutated THEN ShadowAfter(fun) ELSE shadow
               /\ touched' = (touched \/ r.mutated)
               /\ ops' = ops + 1
               /\ UNCHANGED <<iter, load, free, twin, heap, m2>>

InitApply == InitOver(ApplyScenarios)

NextApply == Load \/ Insert \/ Delete \/ Apply

SpecApply == InitApply /\ [][NextApply]_vars


(***************************************************************************)
(* Two tables held by pointer: the table h and the table cfix_clone makes  *)
(* of it.  The member bin of a struct is the address of its bin array in   *)
(* heap, and the member infdata is "NULL" or names the struct, "h" or      *)
(* "twin", whose _infdata it points to.  An operation reads the table      *)
(* through these pointers, runs as above and writes back through them; the *)
(* bin array of a grow, a shrink or a rebuild is a block that was free,    *)
(* and the old block is recycled.                                          *)
(***************************************************************************)
MaxAddr == 3

Addrs == 1 .. MaxAddr

\* a block that is not in use
Free == << >>

FreeAddrs == {a \in Addrs : heap[a] = Free}

Struct(who) == IF who = "h" THEN h ELSE twin

Other(who) == IF who = "h" THEN "twin" ELSE "h"

Tables == IF twin = NoTable THEN {"h"} ELSE {"h", "twin"}

\* the table as the operations see it through the pointers of struct t
Deref(t) ==
    [t EXCEPT !.bin = heap[t.bin],
              !.infdata = (t.infdata # "NULL"),
              !._infdata = IF t.infdata = "NULL" THEN t._infdata
                           ELSE Struct(t.infdata)._infdata]

\* struct t of table who after an operation left the table v, bins at addr
Written(who, t, v, addr) ==
    [v EXCEPT !.bin = addr,
              !.infdata = IF ~v.infdata THEN "NULL"
                          ELSE IF t.infdata = "NULL" THEN who
                          ELSE t.infdata,
              !._infdata = IF t.infdata \in {"NULL", who} THEN v._infdata
                           ELSE t._infdata]

\* the struct of the other table after the same operation: it changes
\* where the infdata of t points into it
Through(who, t, v) ==
    IF Struct(Other(who)) = NoTable THEN NoTable
    ELSE IF t.infdata = Other(who) /\ v.infdata
    THEN [Struct(Other(who)) EXCEPT !._infdata = v._infdata]
    ELSE Struct(Other(who))

\* a clone that takes over the bin array of the original
clone_shallow(t, addr) ==
    [result |-> [t EXCEPT !.infdata = IF t.infdata # "NULL" THEN "twin" ELSE "NULL",
                          !._infdata = IF t.infdata # "NULL"
                                       THEN Struct(t.infdata)._infdata
                                       ELSE t._infdata],
     heap |-> heap]

\* cfix_clone of the table of struct t, with the block at addr from
\* cfix_bin_reuse
cfix_clone(t, addr) ==
    [result |-> [t EXCEPT !.bin = addr,
                          !.infdata = IF t.infdata # "NULL" THEN "twin" ELSE "NULL",
                          !._infdata = IF t.infdata # "NULL"
                                       THEN Struct(t.infdata)._infdata
                                       ELSE t._infdata],
     heap |-> [heap EXCEPT ![addr] = heap[t.bin]]]

CloneScenarios ==
    { [conf |-> Conf(10, 1, 3, 0, 100), load |-> <<Key(1), Key(2), CFIX_INF>>,
       free |-> {Key(1), Key(45), CFIX_INF}],
      [conf |-> Conf(10, 1, 1, 0, 100), load |-> LoadClash \o <<CFIX_INF>>,
       free |-> {ClashKey, CFIX_INF}],
      [conf |-> Conf(80, 1, 3, 25, 75), load |-> LoadSpread \o <<Key(7), Key(52)>>,
       free |-> {Key(1), CFIX_INF}] }

InitClone ==
    \E sc \in CloneScenarios : \E v \in {cfix_create(sc.conf)} :
        /\ ConfigOk(sc.conf)
        /\ h = [v EXCEPT !.bin = 1, !.infdata = "NULL"]
        /\ heap = [a \in Addrs |-> IF a = 1 THEN v.bin ELSE Free]
        /\ twin = NoTable
        /\ iter = NoIter
        /\ status = "run"
        /\ ret = NoCall
        /\ shadow = << >>
        /\ touched = FALSE
        /\ load = sc.load
        /\ free = sc.free
        /\ ops = 0
        /\ m2 = << >>

CallOn(who, op, key, data, ok) ==
    [op |-> op, key |-> key, data |-> data, ok |-> ok, status |-> "", who |-> who]

\* the call op on table who returned r, or ended the process
Outcome(who, op, key, data, r) ==
    IF r.abort
    THEN /\ status' = "abort"
         /\ ret' = CallOn(who, op, key, data, FALSE)
         /\ UNCHANGED <<h, twin, heap, m2>>
    ELSE \E addr \in (IF op = "rebuild" \/ r.h.bins # Struct(who).bins
                      THEN FreeAddrs ELSE {Struct(who).bin}) :
         /\ heap' = [a \in Addrs |-> IF a = addr THEN r.h.bin
                                     ELSE IF a = Struct(who).bin THEN Free
                                     ELSE heap[a]]
         /\ h' = IF who = "h" THEN Written(who, h, r.h, addr)
                 ELSE Through(who, twin, r.h)
         /\ twin' = IF who = "twin" THEN Written(who, twin, r.h, addr)
                    ELSE Through(who, h, r.h)
         /\ ret' = CallOn(who, op, key, data, r.ret)
         /\ UNCHANGED status

CloneLoad ==
    /\ status = "run"
    /\ load # << >>
    /\ \E t \in {Deref(h)} : \E data \in {LoadData(t, Head(load))} :
       \E rand \in (IF Grows(t, Head(load), data) THEN Rands(t)
                    ELSE {NoRand}) :
           Outcome("h", "insert", Head(load), data,
                   cfix_insert(t, Head(load), data, rand))
    /\ load' = IF status' = "run" THEN Tail(load) ELSE load
    /\ UNCHANGED <<iter, shadow, touched, free, ops, m2>>

\* the clone is made when the loading loop is over
Clone ==
    /\ status = "run"
    /\ load = << >>
    /\ ops = 0
    /\ twin = NoTable
    /\ \E addr \in FreeAddrs : \E c \in {cfix_clone(h, addr)} :
           /\ twin' = c.result
           /\ heap' = c.heap
    /\ ret' = CallOn("h", "clone", CFIX_INF, << >>, TRUE)
    /\ UNCHANGED <<h, iter, status, shadow, touched, load, free, ops, m2>>

\* an operation may be called on table who
CloneReady(who) ==
    /\ Ready
    /\ twin # NoTable
    /\ who \in Tables
    /\ heap[Struct(who).bin] # Free

CloneInsert ==
    \E who \in {"h", "twin"} :
        /\ CloneReady(who)
        /\ \E t \in {Deref(Struct(who))} : \E key \in free : \E data \in DataOf(t) :
           \E rand \in (IF Grows(t, key, data) THEN Rands(t)
                        ELSE {NoRand}) :
               Outcome(who, "insert", key, data, cfix_insert(t, key, data, rand))
        /\ ops' = ops + 1
        /\ UNCHANGED <<iter, shadow, touched, load, free, m2>>

CloneDelete ==
    \E who \in {"h", "twin"} :
        /\ CloneReady(who)
        /\ \E key \in free :
               Outcome(who, "delete", key, << >>,
                       cfix_delete(Deref(Struct(who)), key))
        /\ ops' = ops + 1
        /\ UNCHANGED <<iter, shadow, touched, load, free, m2>>

CloneUpdate ==
    \E who \in {"h", "twin"} :
        /\ CloneReady(who)
        /\ \E key \in free : \E data \in DataOf(Struct(who)) :
               Outcome(who, "update", key, data,
                       cfix_update(Deref(Struct(who)), key, data))
        /\ ops' = ops + 1
        /\ UNCHANGED <<iter, shadow, touched, load, free, m2>>

CloneRebuild ==
    \E who \in {"h", "twin"} :
        /\ CloneReady(who)
        /\ \E ratio \in Ratios :
               Outcome(who, "rebuild", CFIX_INF, << >>,
                       cfix_rebuild(Deref(Struct(who)), ratio))
        /\ ops' = ops + 1
        /\ UNCHANGED <<iter, shadow, touched, load, free, m2>>

NextClone ==
    CloneLoad \/ Clone \/ CloneInsert \/ CloneDelete \/ CloneUpdate \/ CloneRebuild

SpecClone == InitClone /\ [][NextClone]_vars

(***************************************************************************)
(* The memory manager (m2.c) under the tables.  A handle records the size  *)
(* of its items and the bytes reused and recycled through it; m2 maps the  *)
(* identifiers of the handles created so far, the chain m2_anchor, to      *)
(* them.  cfix.c creates each of its three handles at its first reuse.     *)
(* Here h and twin are tables by value, NoTable once destroyed, and ops    *)
(* counts every call made after the loading loop.                          *)
(***************************************************************************)
MaxCalls == 3

\* sizeof on an LP64 build
sizeof_cfix_bin_t == CFIX_BIN_SIZE * 4
sizeof_cfix_t == 160
sizeof_cfix_iter_t == 24

m2_create(size) == [size |-> size, reused |-> 0, recycled |-> 0]

m2_reuse(m, n) == [m EXCEPT !.reused = @ + (n * m.size)]

m2_recycle(m, n) == [m EXCEPT !.recycled = @ + (n * m.size)]

\* m2_exit returns, and does not abort
m2_exit(anchor) == \A id \in DOMAIN anchor : anchor[id].reused = anchor[id].recycled

\* the static handle id, created at its first use
Handle(anchor, id, size) ==
    IF id \in DOMAIN anchor THEN anchor[id] ELSE m2_create(size)

cfix_reuse(anchor) ==
    Put(anchor, "cfix_t", m2_reuse(Handle(anchor, "cfix_t", sizeof_cfix_t), 1))

cfix_recycle(anchor) == [anchor EXCEPT !["cfix_t"] = m2_recycle(@, 1)]

cfix_bin_reuse(anchor, n) ==
    Put(anchor, "cfix_bin_t",
        m2_reuse(Handle(anchor, "cfix_bin_t", sizeof_cfix_bin_t), n))

\* a recycle that counts nothing
bin_recycle_none(anchor, n) == anchor

cfix_bin_recycle(anchor, n) == [anchor EXCEPT !["cfix_bin_t"] = m2_recycle(@, n)]

cfix_iter_reuse(anchor) ==
    Put(anchor, "cfix_iter_t",
        m2_reuse(Handle(anchor, "cfix_iter_t", sizeof_cfix_iter_t), 1))

cfix_iter_recycle(anchor) == [anchor EXCEPT !["cfix_iter_t"] = m2_recycle(@, 1)]

\* the handles after the calls an operation made on the bin handle
RECURSIVE bin_calls(_, _)
bin_calls(anchor, calls) ==
    IF calls = << >> THEN anchor
    ELSE bin_calls(IF Head(calls).call = "cfix_bin_reuse"
                   THEN cfix_bin_reuse(anchor, Head(calls).n)
                   ELSE cfix_bin_recycle(anchor, Head(calls).n),
                   Tail(calls))

MemScenarios ==
    { [conf |-> Conf(10, 1, 1, 0, 100), load |-> LoadClash,
       free |-> {ClashKey, CFIX_INF}],
      [conf |-> Conf(10, 0, 4, 0, 25), load |-> Prefix(LoadSpread, 13),
       free |-> {Key(45)}],
      [conf |-> Conf(80, 1, 3, 25, 75), load |-> LoadSpread \o <<Key(7), Key(52)>>,
       free |-> {Key(1)}] }

MemCall(op, who, calls) == [op |-> op, who |-> who, calls |-> calls]

InitMem ==
    /\ h = NoTable
    /\ twin = NoTable
    /\ iter = NoIter
    /\ status = "new"
    /\ ret = MemCall("none", "h", << >>)
    /\ shadow = << >>
    /\ touched = FALSE
    /\ load = << >>
    /\ free = {}
    /\ ops = 0
    /\ heap = << >>
    /\ m2 = << >>

\* the tables that have been made and not destroyed
Live == {who \in {"h", "twin"} : Struct(who) # NoTable}

MemReady == status = "run" /\ load = << >> /\ ops < MaxCalls

MemCreate ==
    /\ status = "new"
    /\ \E sc \in MemScenarios : \E t \in {cfix_create(sc.conf)} :
           /\ ConfigOk(sc.conf)
           /\ h' = t
           /\ m2' = cfix_bin_reuse(cfix_reuse(m2), t.bins * t.size)
           /\ status' = "run"
           /\ ret' = MemCall("cfix_create", "h", << >>)
           /\ load' = sc.load
           /\ free' = sc.free
           /\ UNCHANGED <<iter, shadow, touched, ops, twin, heap>>

\* the outcome r of an operation on table who
MemOutcome(who, op, r) ==
    IF r.abort
    THEN /\ status' = "abort"
         /\ ret' = MemCall(op, who, << >>)
         /\ UNCHANGED <<h, twin, m2>>
    ELSE /\ h' = IF who = "h" THEN r.h ELSE h
         /\ twin' = IF who = "twin" THEN r.h ELSE twin
         /\ m2' = bin_calls(m2, r.calls)
         /\ ret' = MemCall(op, who, r.calls)
         /\ UNCHANGED status

MemLoad ==
    /\ status = "run"
    /\ load # << >>
    /\ \E rand \in RandFor(Head(load), LoadData(h, Head(load))) :
           MemOutcome("h", "insert",
                      cfix_insert(h, Head(load), LoadData(h, Head(load)), rand))
    /\ load' = IF status' = "run" THEN Tail(load) ELSE load
    /\ UNCHANGED <<iter, shadow, touched, free, ops, heap>>

MemInsert ==
    /\ MemReady
    /\ \E who \in Live : \E key \in free : \E t \in {Struct(who)} :
       \E data \in {LoadData(t, key)} :
       \E rand \in (IF Grows(t, key, data) THEN Rands(t) ELSE {NoRand}) :
           MemOutcome(who, "insert", cfix_insert(t, key, data, rand))
    /\ ops' = ops + 1
    /\ UNCHANGED <<iter, shadow, touched, load, free, heap>>

MemDelete ==
    /\ MemReady
    /\ \E who \in Live : \E key \in free :
           MemOutcome(who, "delete", cfix_delete(Struct(who), key))
    /\ ops' = ops + 1
    /\ UNCHANGED <<iter, shadow, touched, load, free, heap>>

MemRebuild ==
    /\ MemReady
    /\ \E who \in Live : \E ratio \in Ratios :
           MemOutcome(who, "rebuild", cfix_rebuild(Struct(who), ratio))
    /\ ops' = ops + 1
    /\ UNCHANGED <<iter, shadow, touched, load, free, heap>>

\* cfix_clone of table h: a struct and a bin array of the size of h's
MemClone ==
    /\ MemReady
    /\ h # NoTable
    /\ twin = NoTable
    /\ twin' = h
    /\ m2' = cfix_bin_reuse(cfix_reuse(m2), h.bins * h.size)
    /\ ret' = MemCall("clone", "twin", << >>)
    /\ ops' = ops + 1
    /\ UNCHANGED <<h, iter, status, shadow, touched, load, free, heap>>

MemDestroy ==
    /\ MemReady
    /\ \E who \in Live : \E t \in {Struct(who)} :
           /\ m2' = cfix_recycle(cfix_bin_recycle(m2, t.bins * t.size))
           /\ h' = IF who = "h" THEN NoTable ELSE h
           /\ twin' = IF who = "twin" THEN NoTable ELSE twin
           /\ ret' = MemCall("destroy", who, << >>)
    /\ ops' = ops + 1
    /\ UNCHANGED <<iter, status, shadow, touched, load, free, heap>>

MemIterCreate ==
    /\ MemReady
    /\ h # NoTable
    /\ iter = NoIter
    /\ \E r \in {cfix_iter_reset(h, [iter EXCEPT !.h = "table"])} :
           /\ ~r.abort
           /\ iter' = r.iter
    /\ m2' = cfix_iter_reuse(m2)
    /\ ret' = MemCall("iter_create", "h", << >>)
    /\ ops' = ops + 1
    /\ UNCHANGED <<h, status, shadow, touched, load, free, twin, heap>>

MemIterDestroy ==
    /\ MemReady
    /\ iter # NoIter
    /\ iter' = NoIter
    /\ m2' = cfix_iter_recycle(m2)
    /\ ret' = MemCall("iter_destroy", "h", << >>)
    /\ ops' = ops + 1
    /\ UNCHANGED <<h, status, shadow, touched, load, free, twin, heap>>

\* m2_exit(): the process ends, by abort when a handle has bytes outstanding
MemExit ==
    /\ status = "run"
    /\ load = << >>
    /\ status' = IF m2_exit(m2) THEN "exit" ELSE "abort"
    /\ m2' = IF m2_exit(m2) THEN << >> ELSE m2
    /\ ret' = MemCall("m2_exit", "h", << >>)
    /\ UNCHANGED <<h, iter, shadow, touched, load, free, ops, twin, heap>>

NextMem ==
    \/ MemCreate \/ MemLoad \/ MemInsert \/ MemDelete \/ MemRebuild \/ MemClone
    \/ MemDestroy \/ MemIterCreate \/ MemIterDestroy \/ MemExit

SpecMem == InitMem /\ [][NextMem]_vars

(***************************************************************************)
(* Properties of the table.  shadow is the map a caller keeps of what it   *)
(* stored: a successful insert or update writes it, a successful delete    *)
(* removes from it.  ret is the call of the step just taken.               *)
(***************************************************************************)
Stored(t, key) == cfix_lookup(t, key).ret

Slots(t) == (0 .. t.bins - 1) \X Offsets

WithinUpper(t) == t.keys * 100 <= t.upper * t.bins * CFIX_BIN_SIZE

\* C1: after any sequence of insert, delete, update and rebuild calls,
\* lookup(k) returns true exactly for the keys k inserted and not deleted
\* since, 0xFFFFFFFF included, with the data of the latest successful insert
\* or update of k.
C1_LookupRoundTrip ==
    \A k \in AllKeys :
        \E r \in {cfix_lookup(h, k)} :
            /\ ~r.abort
            /\ r.ret <=> k \in DOMAIN shadow
            /\ r.ret => r.data = shadow[k]

\* a lookup returned the data an update wrote over the data of the insert
C1_Witness ==
    /\ ret.op = "lookup"
    /\ ret.ok
    /\ ret.key \in DOMAIN shadow
    /\ ret.data = shadow[ret.key]
    /\ ret.data # LoadData(h, ret.key)

\* C2 (as stated): every insert of a key that is not stored returns true
\* with the key stored afterwards, and never ends in an abort.
C2_InsertOfAbsentKeySucceeds ==
    [][(ret'.op = "insert" /\ ~Stored(h, ret'.key))
           => (status' = "run" /\ ret'.ok /\ Stored(h', ret'.key))]_vars

\* C3: keys equals the number of bin slots whose key is not 0xFFFFFFFF,
\* plus one exactly when the side channel of 0xFFFFFFFF is occupied.
C3_KeysCounter ==
    h.keys = Cardinality({s \in Slots(h) : CFIX_KEY(h, s[1], s[2]) # CFIX_INF})
             + (IF h.infdata THEN 1 ELSE 0)

\* an insert grew the table while the side channel was occupied
C3_Witness ==
    /\ ret.op = "insert"
    /\ ret.ok
    /\ ret.key = ClashKey
    /\ h.infdata
    /\ h.prix > 0

\* C4: every stored key other than 0xFFFFFFFF sits in the bin of its first
\* hash or in the bin of its second hash, for the current number of bins.
C4_BucketResidency ==
    \A s \in Slots(h) :
        \E k \in {CFIX_KEY(h, s[1], s[2])} :
            k # CFIX_INF => (s[1] = H1(h, k) \/ s[1] = H2(h, k))

\* an insert displaced a key from the bin of its first hash
C4_Witness ==
    /\ ret.op = "insert"
    /\ ret.ok
    /\ ret.key = BigKey
    /\ \E s \in Slots(h) :
           /\ CFIX_KEY(h, s[1], s[2]) # CFIX_INF
           /\ s[1] # H1(h, CFIX_KEY(h, s[1], s[2]))

\* C5: each bin holds its keys from offset 0 in strictly ascending order,
\* followed only by 0xFFFFFFFF slots.
C5_BinsSorted ==
    \A b \in 0 .. h.bins - 1 : \A o \in 0 .. CFIX_BIN_SIZE - 2 :
        \/ CFIX_KEY(h, b, o + 1) = CFIX_INF
        \/ Less32(CFIX_KEY(h, b, o), CFIX_KEY(h, b, o + 1))

\* a delete took the smallest key out of a full bin
C5_Witness ==
    /\ ret.op = "delete"
    /\ ret.ok
    /\ ret.key = Key(1)
    /\ cfix_bin_count(h, H1(h, ret.key)) = CFIX_BIN_SIZE - 1

C7_InsertOfStoredKey ==
    [][(ret'.op = "insert" /\ Stored(h, ret'.key))
           => (status' = "run" /\ ~ret'.ok /\ h' = h)]_vars

\* an insert of 0xFFFFFFFF with other data was refused
C7_Witness ==
    /\ ret.op = "insert"
    /\ ~ret.ok
    /\ status = "run"
    /\ ret.key = CFIX_INF
    /\ h.infdata
    /\ ret.data # shadow[ret.key]

\* C8: delete, update and lookup of a key that is not stored return false
\* and leave the whole table as it was.
C8_AbsentKeyRefused ==
    [][(ret'.op \in {"delete", "update", "lookup"} /\ ~Stored(h, ret'.key))
           => (status' = "run" /\ ~ret'.ok /\ h' = h)]_vars

\* a delete of 0xFFFFFFFF was refused on a table that holds other keys
C8_Witness ==
    /\ ret.op = "delete"
    /\ ~ret.ok
    /\ status = "run"
    /\ ret.key = CFIX_INF
    /\ ~h.infdata
    /\ h.keys > 0

\* C9 (as stated): every insert, delete or update that returns true, for
\* any key, and every rebuild leaves version greater than it was.
C9_VersionIncreases ==
    [][(ret'.op \in {"insert", "delete", "update", "rebuild"} /\ ret'.ok)
           => h'.version > h.version]_vars

\* C10 (as stated): once a successful insert, delete or update, or a
\* rebuild, followed the latest reset of the iterator, the next iter_current
\* or iter_forward returns CFIX_ITER_INVALID.
C10_StaleIteratorInvalid ==
    [][(touched /\ status' = "run" /\ ret'.op \in {"current", "forward"})
           => ret'.status = CFIX_ITER_INVALID]_vars

\* what the caller's map holds, as <<key, data>> pairs
ShadowPairs == {<<k, shadow[k]>> : k \in DOMAIN shadow}

\* C11: on a table with keys >= 1 that is not mutated meanwhile, the loop
\* reset, then current and forward while forward succeeds, gets
\* CFIX_ITER_SUCCESS from every current and yields every stored key,
\* 0xFFFFFFFF included, exactly once with its data: keys entries in all.
C11_IteratorCoverage ==
    h.keys >= 1 =>
        \E t \in {iter_traverse(h)} :
            /\ ~t.abort
            /\ t.ok
            /\ Len(t.yield) = h.keys
            /\ {t.yield[i] : i \in 1 .. Len(t.yield)} = ShadowPairs

\* the traversal of a grown table of more keys than a bin holds ended with
\* the entry of 0xFFFFFFFF
C11_Witness ==
    /\ h.bins > 2
    /\ h.infdata
    /\ h.keys > CFIX_BIN_SIZE
    /\ \E t \in {iter_traverse(h)} :
           /\ Len(t.yield) = h.keys
           /\ t.yield[Len(t.yield)][1] = CFIX_INF

\* C12 (as stated): on a table with keys = 0, iter_current on a freshly
\* created or freshly reset iterator returns CFIX_ITER_FAILURE and trips no
\* assertion.
C12_CurrentOnEmptyTable ==
    [][(ret.op \in {"create", "reset"} /\ h.keys = 0 /\ ret'.op = "current")
           => (status' = "run" /\ ret'.status = CFIX_ITER_FAILURE)]_vars

\* the entry of a slot, and the stored entries of a table with their numbers
EntryAt(t, s) == <<CFIX_KEY(t, s[1], s[2]), CFIX_DATA(t, s[1], s[2])>>

Pairs(t) ==
    {EntryAt(t, s) : s \in {x \in Slots(t) : CFIX_KEY(t, x[1], x[2]) # CFIX_INF}}
        \cup (IF t.infdata THEN {<<CFIX_INF, t._infdata>>} ELSE {})

Copies(t, e) ==
    Cardinality({s \in Slots(t) : CFIX_KEY(t, s[1], s[2]) # CFIX_INF /\ EntryAt(t, s) = e})
        + (IF t.infdata /\ e = <<CFIX_INF, t._infdata>> THEN 1 ELSE 0)

SameContents(a, b) ==
    /\ Pairs(a) = Pairs(b)
    /\ \A e \in Pairs(a) : Copies(a, e) = Copies(b, e)

\* C13: rebuild(ratio) returns and leaves the multiset of stored (key, data)
\* pairs, the entry of 0xFFFFFFFF with its data included, and the keys
\* counter as they were before the call.
C13_RebuildPreservesContents ==
    [][ret'.op = "rebuild"
           => (status' = "run" /\ h'.keys = h.keys /\ SameContents(h, h'))]_vars

\* a rebuild packed 18 keys with data and the entry of 0xFFFFFFFF from five
\* bins into two
C13_Witness ==
    /\ ret.op = "rebuild"
    /\ h.infdata
    /\ h.size = 2
    /\ h.keys = 19
    /\ h.bins = 2

\* C15 (as stated): cfix_create called with a NULL configuration fails no
\* assertion and makes a table with start 112, data 1, depth 3, lower 0.0,
\* upper 1.0, growth 1.5, attempt 0.5 and random 0.5.
C15_CreateWithDefaults ==
    [][(ret'.op = "cfix_create" /\ ret'.data = << >>)
           => /\ status' = "run"
              /\ h'.prix = cfix_keys_to_prix(CFIX_CONFIG_DEFAULT_START)
              /\ h'.size = CFIX_CONFIG_DEFAULT_DATA + 1
              /\ h'.depth = CFIX_CONFIG_DEFAULT_DEPTH
              /\ h'.lower = CFIX_CONFIG_DEFAULT_LOWER
              /\ h'.upper = CFIX_CONFIG_DEFAULT_UPPER
              /\ h'.growth = CFIX_CONFIG_DEFAULT_GROWTH
              /\ h'.attempt = CFIX_CONFIG_DEFAULT_ATTEMPT
              /\ h'.random = CFIX_CONFIG_DEFAULT_RANDOM]_vars

C17_MinNotAboveMax == h.keys > 0 => ~Less32(h.max, h.min)

\* C18 (as stated): after every insert(k, v) that returns true,
\* min <= k <= max, for every key k, 0xFFFFFFFF included.
C18_InsertedKeyWithinMinMax ==
    (ret.op = "insert" /\ ret.ok)
        => (~Less32(ret.key, h.min) /\ ~Less32(h.max, ret.key))

\* C19: apply with a callback that does not mutate the table invokes it
\* exactly once for every stored key, 0xFFFFFFFF included, with the data
\* stored for that key, and for no other key.
C19_ApplyVisitsEveryEntry ==
    (ret.op = "apply" /\ ~ret.mutated /\ status # "abort")
        => /\ status = "run"
           /\ Len(ret.data) = h.keys
           /\ {ret.data[i] : i \in 1 .. Len(ret.data)} = ShadowPairs

\* an apply without mutation went over a full bin and the entry of
\* 0xFFFFFFFF
C19_Witness ==
    /\ ret.op = "apply"
    /\ ~ret.mutated
    /\ status = "run"
    /\ Len(ret.data) > CFIX_BIN_SIZE
    /\ ret.data[Len(ret.data)][1] = CFIX_INF

\* C20 (as stated): if the callback performs a successful insert, delete,
\* update or rebuild on the table traversed, in any of its invocations and
\* for any key, apply ends the process and does not return.
C20_MutatingCallbackEndsProcess ==
    (ret.op = "apply" /\ ret.mutated) => status \in {"exit", "abort"}

\* C14: cfix_clone leaves the original as it was and makes a table equal to
\* it; afterwards no insert, delete, update or rebuild on the clone changes
\* anything that can be read from the original (every slot, keys, bins,
\* version, min, max, the entry of 0xFFFFFFFF), and none on the original
\* changes anything that can be read from the clone.
C14_CloneIndependence ==
    [][/\ ret'.op = "clone"
           => (Deref(h)' = Deref(h) /\ Deref(twin)' = Deref(h))
       /\ (twin # NoTable /\ ret'.who = "twin") => Deref(h)' = Deref(h)
       /\ (twin # NoTable /\ ret'.who = "h") => Deref(twin)' = Deref(twin)]_vars

\* an insert grew the clone of a table that holds the entry of 0xFFFFFFFF
C14_Witness ==
    /\ twin # NoTable
    /\ ret.op = "insert"
    /\ ret.who = "twin"
    /\ ret.ok
    /\ twin.bins > h.bins
    /\ twin.infdata = "twin"
    /\ h.infdata = "h"

\* C21 (as stated): every prime index a shrink attempts is strictly smaller
\* than the index before the delete, so a delete never ends the process on
\* assert(h->prix < old.prix) and never leaves more bins than there were.
C21_ShrinkBelowOldPrix ==
    [][ret'.op = "delete" => (status' = "run" /\ h'.bins <= h.bins)]_vars

\* the bytes outstanding on the handle id
Outstanding(id) == IF id \in DOMAIN m2 THEN m2[id].reused - m2[id].recycled ELSE 0

\* the bytes of the bin array of a table
BinBytes(t) == IF t = NoTable THEN 0 ELSE t.bins * t.size * 64

\* C22: between operations the bytes outstanding on the bin handle (reused
\* minus recycled) are the sum over the live tables of bins * size * 64,
\* also after the retries of a grow, a shrink or a rebuild; once every table
\* and iterator is destroyed every handle has recycled what it reused, and
\* m2_exit does not abort.
C22_BinBytesOutstanding ==
    /\ status = "run" => Outstanding("cfix_bin_t") = BinBytes(h) + BinBytes(twin)
    /\ (status = "run" /\ Live = {} /\ iter = NoIter)
           => \A id \in DOMAIN m2 : m2[id].reused = m2[id].recycled
    /\ (ret.op = "m2_exit" /\ Live = {} /\ iter = NoIter) => status = "exit"

\* a grow, a shrink or a rebuild retried while the table and its clone live
C22_Witness ==
    /\ status = "run"
    /\ ret.op \in {"insert", "delete", "rebuild"}
    /\ Len(ret.calls) > 2
    /\ Live = {"h", "twin"}
    /\ iter # NoIter

RECURSIVE SumTo(_, _)
SumTo(f, c) == IF c < 0 THEN 0 ELSE f[c] + SumTo(f, c - 1)

\* the number of keys in bin b of table t
Holds(t, b) == Cardinality({o \in Offsets : CFIX_KEY(t, b, o) # CFIX_INF})

\* C23: for every reachable table, stats returns hist with hist[c] the number
\* of bins that hold exactly c keys, so that the entries of hist sum to bins
\* and the sum of c * hist[c] is keys less the entry of 0xFFFFFFFF, and
\* primary the number of stored keys k whose bin is H1(k) mod bins; the table
\* is as it was.
C23_StatsCountsBins ==
    ret.op = "stats" =>
        /\ \A c \in 0 .. CFIX_BIN_SIZE :
               ret.stats.hist[c]
                   = Cardinality({b \in 0 .. h.bins - 1 : Holds(h, b) = c})
        /\ SumTo(ret.stats.hist, CFIX_BIN_SIZE) = h.bins
        /\ SumTo([c \in 0 .. CFIX_BIN_SIZE |-> c * ret.stats.hist[c]], CFIX_BIN_SIZE)
               = h.keys - (IF h.infdata THEN 1 ELSE 0)
        /\ ret.stats.primary
               = Cardinality({s \in Slots(h) :
                                 /\ CFIX_KEY(h, s[1], s[2]) # CFIX_INF
                                 /\ s[1] = H1(h, CFIX_KEY(h, s[1], s[2]))})

\* stats of a table that holds the entry of 0xFFFFFFFF and keys in their
\* second bin
C23_Witness ==
    /\ ret.op = "stats"
    /\ h.infdata
    /\ ret.stats.primary > 0
    /\ ret.stats.primary < h.keys - 1

\* delete(key) and then insert(key, data) on table t both return true and
\* leave the pairs and the key count of table after
DeleteThenInsert(t, key, data, after) ==
    \E d \in {cfix_delete(t, key)} :
        /\ ~d.abort
        /\ d.ret
        /\ \A rand \in Rands(d.h) :
           \E i \in {cfix_insert(d.h, key, data, rand)} :
               /\ ~i.abort
               /\ i.ret
               /\ Pairs(i.h) = Pairs(after)
               /\ i.h.keys = after.keys

\* C24 (as stated): for a stored key k, 0xFFFFFFFF included, update(k, v)
\* leaves the same set of stored (key, data) pairs and the same keys count as
\* delete(k) followed by insert(k, v) would.
C24_UpdateAsDeleteInsert ==
    [][(ret'.op = "update" /\ ret'.ok)
           => DeleteThenInsert(h, ret'.key, ret'.data, h')]_vars

\* C25 (as stated): after a successful update(k, v), lookup(k) returns v, and
\* a second update(k, v) with the same data leaves the entire table state,
\* version included, as it was after the first.
C25_SecondUpdateNoOp ==
    [][(ret'.op = "update" /\ ret'.ok)
           => /\ cfix_lookup(h', ret'.key).ret
              /\ cfix_lookup(h', ret'.key).data = ret'.data
              /\ cfix_update(h', ret'.key, ret'.data).h = h']_vars

\* C25 (amended): after a successful update(k, v), lookup(k) returns v, and a
\* second update(k, v) returns true and leaves the table as it was after the
\* first except for version, which it increases by one when k is not
\* 0xFFFFFFFF.
C25_SecondUpdateCountsVersion ==
    [][(ret'.op = "update" /\ ret'.ok)
           => /\ cfix_lookup(h', ret'.key).ret
              /\ cfix_lookup(h', ret'.key).data = ret'.data
              /\ \E u \in {cfix_update(h', ret'.key, ret'.data)} :
                     /\ ~u.abort
                     /\ u.ret
                     /\ u.h = [h' EXCEPT !.version =
                                  IF ret'.key = CFIX_INF THEN @ ELSE @ + 1]]_vars

\* an update has replaced the data of a stored key other than 0xFFFFFFFF
C25_Witness ==
    /\ ret.op = "update"
    /\ ret.ok
    /\ ret.key # CFIX_INF
    /\ h.size > 1
    /\ ret.data # <<Not32(ret.key)>>
    /\ cfix_lookup(h, ret.key).data = ret.data

\* C26 (as stated): for every reachable table, rebuild(1.0) leaves bins less
\* than or equal to bins before the call, also when the placement at the
\* smallest candidate prime index fails and the index is retried upward.
C26_RebuildNeverAddsBins ==
    [][(ret'.op = "rebuild" /\ h' = cfix_rebuild(h, 100).h)
           => h'.bins <= h.bins]_vars

\* C27 (as stated): after every delete that returns true and leaves more than
\* 16 keys, keys / (bins * 16) >= lower.
C27_FillAfterDelete ==
    [][(ret'.op = "delete" /\ ret'.ok /\ h'.keys > CFIX_BIN_SIZE)
           => h'.keys * 100 >= h'.lower * h'.bins * CFIX_BIN_SIZE]_vars

\* C28: whenever cfix_cuckoo(k, v, ttl) returns false, for any ttl >= 0,
\* every bin slot, key and data, is as it was before the call, and the
\* assertions of the restore (the slot still holds k, the candidate is back
\* at its offset) do not fail.
C28_FailedPlacementRestores ==
    status = "run" =>
        \A key \in free : \A ttl \in Ttls :
            (key # CFIX_INF /\ ~Stored(h, key)) =>
                \E c \in {cfix_cuckoo(h, key, LoadData(h, key), ttl)} :
                    /\ ~c.abort
                    /\ ~c.ok => c.h = h

\* a placement with ttl 2 fails on a table whose two bins are full: every
\* candidate was moved, failed to find a place, and was restored
C28_Witness ==
    /\ status = "run"
    /\ h.bins = 2
    /\ h.keys = 2 * CFIX_BIN_SIZE
    /\ ~Stored(h, Key(45))
    /\ ~cfix_cuckoo(h, Key(45), LoadData(h, Key(45)), 2).ok

\* the bin of table t that holds key
BinOf(t, key) == CHOOSE b \in 0 .. t.bins - 1 : \E o \in Offsets : CFIX_KEY(t, b, o) = key

\* the keys in the bins of table t
KeysIn(t) == {CFIX_KEY(t, s[1], s[2]) : s \in Slots(t)} \ {CFIX_INF}

\* the call just made is an insert that placed its key in the bins there were
PlacedInPlace ==
    /\ ret'.op = "insert"
    /\ ret'.ok
    /\ ret'.key # CFIX_INF
    /\ h'.bins = h.bins

\* C29: an insert that does not resize the table relocates only occupants
\* that were in their primary bin H1(c) mod bins; every key that was in its
\* secondary bin before the insert is in the same bin after it.
C29_OnlyPrimaryResidentsMove ==
    [][PlacedInPlace
           => \A c \in KeysIn(h) :
                  BinOf(h', c) # BinOf(h, c) => BinOf(h, c) = H1(h, c)]_vars

\* an insert moved an occupant of a full bin to its secondary bin, and the
\* key 9, which lies in its secondary bin, in the same full bin, stayed
C29_Witness ==
    /\ ret.op = "insert"
    /\ ret.ok
    /\ ret.key = BigKey
    /\ h.bins = 2
    /\ BinOf(h, BigKey) = 0
    /\ BinOf(h, Key(9)) = 0
    /\ H1(h, Key(9)) = 1
    /\ \E c \in KeysIn(h) : H1(h, c) = 0 /\ BinOf(h, c) = 1

\* bin b of table t has a free slot
HasRoom(t, b) == \E o \in Offsets : CFIX_KEY(t, b, o) = CFIX_INF

\* the keys of table t other than key lie in after where they lie in t
OthersStay(t, after, key) ==
    \A c \in KeysIn(t) \ {key} : BinOf(after, c) = BinOf(t, c)

\* C30: when an insert of an absent key k does not resize the table, if the
\* primary bin of k has a free slot then k ends in its primary bin and no
\* other key changes bin; otherwise, if the secondary bin of k has a free
\* slot, k ends in its secondary bin and no other key changes bin.
C30_FreeSlotPlacement ==
    [][PlacedInPlace
           => IF HasRoom(h, H1(h, ret'.key))
              THEN /\ BinOf(h', ret'.key) = H1(h, ret'.key)
                   /\ OthersStay(h, h', ret'.key)
              ELSE HasRoom(h, H2(h, ret'.key))
                       => /\ BinOf(h', ret'.key) = H2(h, ret'.key)
                          /\ OthersStay(h, h', ret'.key)]_vars

\* a key whose primary bin is full lies in its secondary bin
C30_Witness ==
    /\ ret.op = "insert"
    /\ ret.ok
    /\ ret.key = Key(9)
    /\ h.bins = 2
    /\ BinOf(h, Key(9)) = H2(h, Key(9))
    /\ H1(h, Key(9)) # H2(h, Key(9))
    /\ ~HasRoom(h, H1(h, Key(9)))

\* the smaller of two numbers
Least(a, b) == IF a < b THEN a ELSE b

\* the keys of table t that lie in another bin in after
Moved(t, after) == {c \in KeysIn(t) : BinOf(after, c) # BinOf(t, c)}

\* C31: the placement an insert starts nests at most min(depth, bins) calls
\* of cfix_cuckoo that get past the ttl test (a call with ttl = 0 returns
\* false before it looks at a bin), and an insert that does not resize the
\* table moves at most min(depth, bins) - 1 stored keys to a different bin.
C31_DisplacementBounded ==
    [][(ret'.op = "insert" /\ ret'.ok /\ ret'.key # CFIX_INF /\ ~Filled(h))
           => /\ cfix_cuckoo(h, ret'.key, ret'.data, CFIX_TTL(h)).deep
                      <= Least(h.depth, h.bins)
              /\ h'.bins = h.bins
                      => Cardinality(Moved(h, h')) <= Least(h.depth, h.bins) - 1]_vars

\* with depth 2 and 2 bins an insert into a full primary and secondary bin
\* moved exactly one key from its primary to its secondary bin
C31_Witness ==
    /\ ret.op = "insert"
    /\ ret.ok
    /\ ret.key = BigKey
    /\ h.bins = 2
    /\ h.depth = 2
    /\ Cardinality({c \in KeysIn(h) \ {BigKey} : H1(h, c) = 0 /\ BinOf(h, c) = 1})
           = Least(h.depth, h.bins) - 1

\* the attempts of the grow loop looked at
MaxAttempts == 3

\* C32: whatever an attempt of the grow loop draws, attempt n uses a prime
\* index of at least the old index plus n; an insert that runs the grow
\* loop and returns leaves the prime index of one of these attempts, and
\* prix and bins strictly greater than before.
C32_GrowRaisesPrix ==
    [][(ret'.op = "insert" /\ status' = "run" /\ Grows(h, ret'.key, ret'.data))
           => /\ \A draw \in Draws(h) : \A n \in 1 .. MaxAttempts :
                     grow_prix(h, draw, n) >= h.prix + n
              /\ ret'.ok
              /\ \E draw \in Draws(h) : \E n \in 1 .. MaxAttempts :
                     h'.prix = grow_prix(h, draw, n)
              /\ h'.prix > h.prix
              /\ h'.bins > h.bins]_vars

\* a table with a negative attempt coefficient grew from prime index 1: the
\* first attempt, at index 2, failed, and the second took index 1 + 2
C32_Witness ==
    /\ ret.op = "insert"
    /\ ret.ok
    /\ ret.key = FiveKey
    /\ h.attempt < 0
    /\ h.keys = 17
    /\ h.prix = 3
    /\ h.bins = 7

\* with one key less, table t holds more than 16 keys and is below lower
BelowLower(t) ==
    /\ t.keys - 1 > CFIX_BIN_SIZE
    /\ (t.keys - 1) * 100 < t.lower * t.bins * CFIX_BIN_SIZE

C34_EmptiedTableAsNew ==
    (ret.op = "delete" /\ ret.ok /\ status = "run" /\ h.keys = 0)
        => /\ h.min = CFIX_INF
           /\ h.max = <<0, 0>>

\* C35: a cfix_iter_forward that follows a cfix_iter_forward which returned
\* CFIX_ITER_FAILURE, on the same table, returns CFIX_ITER_FAILURE and
\* leaves the cursor at base = bins.
C35_ForwardStaysAtEnd ==
    [][(/\ ret.op = "forward"
        /\ ret.status = CFIX_ITER_FAILURE
        /\ ret'.op = "forward"
        /\ iter' # iter
        /\ h' = h)
           => /\ ret'.status = CFIX_ITER_FAILURE
              /\ iter'.base <= h.bins]_vars

\* every key in the bins of table t lies between t.min and t.max
WithinMinMax(t) ==
    \A k \in KeysIn(t) : ~Less32(k, t.min) /\ ~Less32(t.max, k)

\* t.min and t.max are the smallest and the largest key in the bins of t
ExactMinMax(t) ==
    /\ t.min \in KeysIn(t)
    /\ t.max \in KeysIn(t)
    /\ WithinMinMax(t)

Settled(t) ==
    [keys |-> t.keys, bins |-> t.bins, prix |-> t.prix, size |-> t.size,
     min |-> t.min, max |-> t.max, infdata |-> t.infdata, depth |-> t.depth]

\* C37: an update of key k that returns true leaves every key in its slot,
\* the data of every other key, keys, bins, prix, min and max as they were,
\* and takes or gives back no bin array: only the data of k (and version)
\* can differ.
C37_UpdateWritesOnlyData ==
    [][(ret'.op = "update" /\ ret'.ok /\ status' = "run")
           => /\ Settled(h') = Settled(h)
              /\ \A s \in Slots(h) :
                     /\ CFIX_KEY(h', s[1], s[2]) = CFIX_KEY(h, s[1], s[2])
                     /\ CFIX_KEY(h, s[1], s[2]) # ret'.key
                            => CFIX_DATA(h', s[1], s[2]) = CFIX_DATA(h, s[1], s[2])
              /\ ret'.key # CFIX_INF => h'._infdata = h._infdata
              /\ cfix_update(h, ret'.key, ret'.data).calls = << >>
              /\ cfix_lookup(h', ret'.key).data = ret'.data]_vars

\* an update wrote the data of a key that is not the first of its bin, and
\* the first key of the bin holds other data
C37_Witness ==
    /\ ret.op = "update"
    /\ ret.ok
    /\ ret.key # CFIX_INF
    /\ h.size > 1
    /\ \E s \in Slots(h) :
           /\ s[2] > 0
           /\ CFIX_KEY(h, s[1], s[2]) = ret.key
           /\ CFIX_DATA(h, s[1], s[2]) = ret.data
           /\ CFIX_DATA(h, s[1], 0) # ret.data

\* the keys of bin b of table t ascend, and the free slots follow them
SortedBinAt(t, b) ==
    \A o \in 0 .. (CFIX_BIN_SIZE - 2) :
        \/ Less32(CFIX_KEY(t, b, o), CFIX_KEY(t, b, o + 1))
        \/ CFIX_KEY(t, b, o + 1) = CFIX_INF

\* C38: on a sorted bin and for a key other than 0xFFFFFFFF, cfix_bin_locate
\* reports a hit if and only if the key is in the bin, the offset it gives
\* is then the slot of the key, and the assertion after a miss holds.
C38_LadderFindsKey ==
    (ret.op = "bin_locate" /\ SortedBinAt(h, 0) /\ ret.key # CFIX_INF)
        => /\ status = "run"
           /\ ret.ok <=> \E o \in Offsets : CFIX_KEY(h, 0, o) = ret.key
           /\ ret.ok => CFIX_KEY(h, 0, ret.offset) = ret.key

\* the ladder found a key in the last slot of a full bin
C38_Witness ==
    /\ ret.op = "bin_locate"
    /\ ret.ok
    /\ SortedBinAt(h, 0)
    /\ ret.offset = CFIX_BIN_SIZE - 1
    /\ ret.key = Key(39)
    /\ CFIX_KEY(h, 0, CFIX_BIN_SIZE - 1) = Key(39)

\* the slots of table t that hold a key
Occupied(t) == {s \in Slots(t) : CFIX_KEY(t, s[1], s[2]) # CFIX_INF}

\* C39: after every operation no key other than 0xFFFFFFFF is in more than
\* one slot of the table: there are as many occupied slots as keys in them.
C39_NoKeyTwice ==
    status = "run" => Cardinality(Occupied(h)) = Cardinality(KeysIn(h))

\* a key whose two hash functions name the same bin was inserted through a
\* failed displacement chain and a grow, and is in one slot
C39_Witness ==
    /\ ret.op = "insert"
    /\ ret.ok
    /\ ret.key = ClashKey
    /\ H1(h, ClashKey) = H2(h, ClashKey)
    /\ h.bins > 2
    /\ h.keys = 32
    /\ Cardinality({s \in Slots(h) : CFIX_KEY(h, s[1], s[2]) = ClashKey}) = 1

\* the slots of table t that hold no key
Vacant(t) == {s \in Slots(t) : CFIX_KEY(t, s[1], s[2]) = CFIX_INF}

\* C40: after every operation every slot whose key is 0xFFFFFFFF holds
\* CFIX_NODATA in each of its data words, so that cfix_data_empty, which
\* cfix_cuckoo asserts of a free last slot before it writes there, is true
\* of it.
C40_VacantSlotsCleared ==
    \A s \in Vacant(h) :
        /\ \A i \in 1 .. (h.size - 1) : CFIX_DATA(h, s[1], s[2])[i] = CFIX_NODATA
        /\ cfix_data_empty(h, s[1], s[2])

\* a delete took a key with data out of a full bin: the last slot of the bin
\* is free and cleared, and the 15 keys before it kept their data
C40_Witness ==
    /\ ret.op = "delete"
    /\ ret.ok
    /\ ret.key # CFIX_INF
    /\ h.size = 2
    /\ \E b \in 0 .. (h.bins - 1) :
           /\ cfix_bin_count(h, b) = CFIX_BIN_SIZE - 1
           /\ b \in {H1(h, ret.key), H2(h, ret.key)}
           /\ CFIX_DATA(h, b, CFIX_BIN_SIZE - 1) = <<CFIX_NODATA>>
           /\ \A o \in 0 .. (CFIX_BIN_SIZE - 2) : CFIX_DATA(h, b, o) # <<CFIX_NODATA>>

====
